---- MODULE Spec2Model ----
(***************************************************************************)
(* Model of the second-hand trading client: the dual-signature completion  *)
(* handshake of client/js/trade.js, the primitives of client/js/crypto.js  *)
(* it rests on, and the per-peer chat session manager (chat.js, in its two *)
(* variants).                                                              *)
(***************************************************************************)
EXTENDS Integers, Sequences, FiniteSets, TLC

(***************************************************************************)
(* Bounds of the model.                                                    *)
(***************************************************************************)
MaxTime == 2          \* clock values 1..MaxTime (Date.now() in seconds)
MaxDeliver == 2       \* inbound socket messages delivered per chat context
MaxSend == 1          \* messages the page sends per chat context
MaxHistory == 2       \* stored records when every list of records is tried
MaxGen == 2           \* key pairs generated per key store context
MaxLoad == 2          \* loadX25519KeyPair calls per key store context
MaxAttempts == 2      \* openChatSocket calls per socket context

(***************************************************************************)
(* Universe of values.                                                     *)
(***************************************************************************)
NoKey == "null"                       \* JS null / undefined for a key
IdKeys == {"S", "B", "X"}             \* Ed25519 identity public keys
TradeIds == {"T1", "T2"}
PageTradeId == "T1"                   \* trade_id of the page URL
Results == {"COMPLETED", "CANCELLED"}
Times == 1..MaxTime

Range(s) == {s[i] : i \in DOMAIN s}

(***************************************************************************)
(* crypto.js: canonical JSON, hash, sign, verify.                          *)
(* A JSON value is tagged: <<"null", "null">>, <<"bool", "true">>,         *)
(* <<"num", n>>, <<"str", s>>, <<"arr", elements>> and <<"obj", entries>>, *)
(* the entries being <<key, value>> pairs in insertion order.              *)
(***************************************************************************)
\* the order Array.prototype.sort puts the keys of the model in
KeyOrder == <<"a", "b", "result", "timestamp", "trade_id">>

objectKeys(obj) == {obj[i][1] : i \in DOMAIN obj}

objectGet(obj, k) == (CHOOSE p \in Range(obj) : p[1] = k)[2]

\* JSON.stringify of a primitive: a string is quoted, the others are bare
stringify(v) ==
  IF v[1] = "str" THEN <<"quote", v[2], "quote">>
  ELSE IF v[1] = "num" THEN <<ToString(v[2])>>
  ELSE <<v[2]>>

\* variant: the entries are written in insertion order
RECURSIVE canonicalize_unsorted(_)
canonicalize_unsorted(obj) ==
  IF obj[1] = "arr"
    THEN <<"[", [i \in DOMAIN obj[2] |-> canonicalize_unsorted(obj[2][i])]>>
  ELSE IF obj[1] = "obj"
    THEN <<"{", [i \in DOMAIN obj[2] |->
                  <<obj[2][i][1], canonicalize_unsorted(obj[2][i][2])>>]>>
  ELSE stringify(obj)

\* a primitive is stringified; an array is the texts of its elements in
\* order; an object is Object.keys(obj).sort(), then one "key":value entry
\* per key.  The bracketed and comma-separated text is kept as its parts.
RECURSIVE canonicalize(_)
canonicalize(obj) ==
  IF obj[1] = "arr"
    THEN <<"[", [i \in DOMAIN obj[2] |-> canonicalize(obj[2][i])]>>
  ELSE IF obj[1] = "obj"
    THEN LET present == objectKeys(obj[2])
             keys == SelectSeq(KeyOrder, LAMBDA k : k \in present)
         IN <<"{", [i \in DOMAIN keys |->
                     <<keys[i], canonicalize(objectGet(obj[2], keys[i]))>>]>>
  ELSE stringify(obj)

\* SHA-256 of the canonical text, taken as collision free
hash(data) == <<"sha256", canonicalize(data)>>

\* Ed25519 signature by the private key of owner `priv` over the hash bytes
sign(hashHex, priv) == <<"sig", priv, hashHex>>

MalformedSig == <<"malformed">>       \* text that atob() rejects
ShortSig == <<"short">>               \* base64 text of fewer than 64 bytes

\* verify: atob() throws on malformed base64, otherwise the Ed25519 check,
\* which fails for a signature of the wrong length
verify(hashHex, signatureB64, publicKeyB64) ==
  IF signatureB64[1] = "malformed" THEN "throw"
  ELSE IF signatureB64[1] = "short" THEN "false"
  ELSE IF signatureB64[2] = publicKeyB64 /\ signatureB64[3] = hashHex THEN "true"
  ELSE "false"

(***************************************************************************)
(* Completion bodies.                                                      *)
(***************************************************************************)
Body(t, r, ts) == <<"obj", <<<<"trade_id", <<"str", t>>>>, <<"result", <<"str", r>>>>, <<"timestamp", <<"num", ts>>>>>>>>

\* the same content with the keys inserted in another order
BodyReordered(t, r, ts) == <<"obj", <<<<"timestamp", <<"num", ts>>>>, <<"result", <<"str", r>>>>, <<"trade_id", <<"str", t>>>>>>>>

Bodies == {Body(t, r, ts) : t \in TradeIds, r \in Results, ts \in Times}
            \cup {BodyReordered(t, r, ts) : t \in TradeIds, r \in Results, ts \in Times}

(***************************************************************************)
(* State of the trade page (trade.js) and of its collaborators.            *)
(***************************************************************************)
VARIABLES
  identityPub,      \* public key of the stored identity, NoKey when none is stored
  tradeBuyer,       \* buyer_pubkey of the trade document held by the relay
  pageReady,        \* currentTradeId / currentTrade / currentIdentity are set
  pendingPeerSig,   \* window.__pendingPeerSig: <<>> or <<peerSig>>
  localSigned,      \* completion hashes the local identity key has signed so far
  op,               \* the operation that ran last
  alertMsg,         \* text shown by alert() in the last operation, "" when none
  chatOut,          \* message handed to chat.sendMessage by the last operation
  relayOut,         \* request sent to POST /trade/complete by the last operation
  cancelOut,        \* request sent to POST /trade/cancel by the last operation
  relayResult,      \* the relay's answer to it: "none", "accepted", "rejected"
  tradeStatus,      \* status of the trade document held by the relay
  endedNotice,      \* showTradeEndedNotice has disabled the buttons of this page
  verifyCalls,      \* number of crypto.verify invocations in the last operation
  mySigOut          \* signature record the local party produced in the last operation

tradeVars == <<identityPub, tradeBuyer, pageReady, pendingPeerSig, localSigned, op,
               alertMsg, chatOut, relayOut, cancelOut, relayResult, tradeStatus, endedNotice,
               verifyCalls, mySigOut>>

(***************************************************************************)
(* State of the chat module.                                               *)
(***************************************************************************)
VARIABLES
  variant,            \* which of the two chat modules is loaded
  currentTradeId,     \* the chat module's currentTradeId: the trade of the last initChat
  initPc,             \* position of initChat: "closed", "initial", "fetch", "history", "opening", "live", "failed"
  isSeller,
  sellerChatPubKey,   \* NullKey when not recorded
  myChatPubKeyStr,    \* NullKey when the module holds no key pair
  sessions,           \* the Map in insertion order: sequence of session records
  currentSessionPeer, \* NullKey when no session is active
  tasks,              \* handlers suspended at a crypto call
  history,            \* history records not yet processed by loadChatHistory
  socketLive,         \* the message handler is attached to an open socket
  derivations,        \* number of key derivations performed per session key
  delivered,          \* inbound socket messages delivered so far
  uiHasSessions,      \* the session list of the page has an item
  lastIn,             \* the key of the inbound signal, when the last step delivered one
  closed,             \* closeChat has run
  sendOutcome         \* how sendMessage got on, when the last step ran it: "none" otherwise

chatVars == <<variant, currentTradeId, initPc, isSeller, sellerChatPubKey, myChatPubKeyStr, sessions,
              currentSessionPeer, tasks, history, socketLive, derivations, delivered,
              uiHasSessions, lastIn, closed, sendOutcome>>

(***************************************************************************)
(* State of the key store (crypto.js over localStorage; the identity item  *)
(* is identityPub above).                                                  *)
(***************************************************************************)
VARIABLES
  x25519Stored,     \* localStorage item x25519_keypair: NoPair or a key pair
  xTasks,           \* loadX25519KeyPair calls suspended at generateX25519KeyPair
  xReturned,        \* key pairs the finished loadX25519KeyPair calls returned
  generated         \* number of X25519 key pairs generated so far

keyVars == <<x25519Stored, xTasks, xReturned, generated>>

(***************************************************************************)
(* The primitives of crypto.js taken alone: the values handed to           *)
(* canonicalize / hash and to verify, and what they returned.              *)
(***************************************************************************)
VARIABLES
  jsonA,            \* a JSON value
  jsonB,            \* the value built again, entries or elements in another order
  codecOut,         \* <<hash(jsonA), hash(jsonB)>>, <<>> before hash has run
  verifyIn,         \* <<hashHex, signatureB64, publicKeyB64>>
  verifyOut         \* what verify did: "none" before it has run

codecVars == <<jsonA, jsonB, codecOut>>

verifyVars == <<verifyIn, verifyOut>>

(***************************************************************************)
(* State of openChatSocket (api.js).                                       *)
(***************************************************************************)
VARIABLES
  attempts,         \* one record per openChatSocket call: its socket and promise
  chatSocket,       \* the module variable chatSocket: 0 (null) or an attempt
  callbacks,        \* length of chatSocketCallbacks
  wire              \* what the client has sent, in order: <<socket, message type>>

sockVars == <<attempts, chatSocket, callbacks, wire>>

libVars == <<keyVars, codecVars, verifyVars, sockVars>>

vars == <<tradeVars, chatVars, libVars>>

TradeSeller == "S"                    \* seller_pubkey of the trade document

TradeDoc == [seller_pubkey |-> TradeSeller, buyer_pubkey |-> tradeBuyer]

SigRecord(body, h, signature, pubkey) ==
  [body |-> body, hash |-> h, signature |-> signature, pubkey |-> pubkey]

(***************************************************************************)
(* trade.js: signing helpers.                                              *)
(***************************************************************************)
signComplete(tradeId, identity, now) ==
  LET body == Body(tradeId, "COMPLETED", now)
      completeHash == hash(body)
  IN SigRecord(body, completeHash, sign(completeHash, identity), identity)

\* variant: the confirming party builds its own body with its own clock
signCompleteWithBody_fresh(body, identity, now) == signComplete(PageTradeId, identity, now)

signCompleteWithBody(body, identity, now) ==
  LET completeHash == hash(body)
  IN SigRecord(body, completeHash, sign(completeHash, identity), identity)

(***************************************************************************)
(* trade.js: verifyPeerSignature.  Returns whether it returned normally,   *)
(* the error text otherwise, and how many times crypto.verify was invoked. *)
(***************************************************************************)
\* variant: the claimed hash is trusted, only the signature is checked
verifyPeerSignature_skipHash(body, h, signature, peerPubKey) ==
  LET v == verify(h, signature, peerPubKey)
  IN IF v = "true" THEN [ok |-> TRUE, err |-> "", calls |-> 1]
     ELSE IF v = "false" THEN [ok |-> FALSE, err |-> "peer signature invalid", calls |-> 1]
     ELSE [ok |-> FALSE, err |-> "verify threw", calls |-> 1]

\* variant: the signature is verified first, the hash compared afterwards
verifyPeerSignature_verifyFirst(body, h, signature, peerPubKey) ==
  LET v == verify(h, signature, peerPubKey)
  IN IF v = "throw" THEN [ok |-> FALSE, err |-> "verify threw", calls |-> 1]
     ELSE IF hash(body) # h THEN [ok |-> FALSE, err |-> "hash mismatch", calls |-> 1]
     ELSE IF v = "false" THEN [ok |-> FALSE, err |-> "peer signature invalid", calls |-> 1]
     ELSE [ok |-> TRUE, err |-> "", calls |-> 1]

verifyPeerSignature(body, h, signature, peerPubKey) ==
  IF hash(body) # h
    THEN [ok |-> FALSE, err |-> "hash mismatch", calls |-> 0]
    ELSE LET v == verify(h, signature, peerPubKey)
         IN IF v = "true" THEN [ok |-> TRUE, err |-> "", calls |-> 1]
            ELSE IF v = "false" THEN [ok |-> FALSE, err |-> "peer signature invalid", calls |-> 1]
            ELSE [ok |-> FALSE, err |-> "verify threw", calls |-> 1]

(***************************************************************************)
(* trade.js: submitComplete.  relayOk is the relay's answer to the POST.   *)
(***************************************************************************)
submitComplete(tradeId, sigA, sigB, relayOk) ==
  LET none == [sent |-> <<>>, result |-> "none"]
  IN IF hash(sigA.body) # sigA.hash
       THEN none @@ [ok |-> FALSE, err |-> "local hash mismatch", calls |-> 0]
     ELSE IF sigA.hash # sigB.hash
       THEN none @@ [ok |-> FALSE, err |-> "hashes differ", calls |-> 0]
     ELSE LET vA == verify(sigA.hash, sigA.signature, sigA.pubkey)
              vB == verify(sigB.hash, sigB.signature, sigB.pubkey)
          IN IF vA = "throw" THEN none @@ [ok |-> FALSE, err |-> "verify threw", calls |-> 1]
             ELSE IF vA = "false" THEN none @@ [ok |-> FALSE, err |-> "invalid signature", calls |-> 1]
             ELSE IF vB = "throw" THEN none @@ [ok |-> FALSE, err |-> "verify threw", calls |-> 2]
             ELSE IF vB = "false" THEN none @@ [ok |-> FALSE, err |-> "invalid signature", calls |-> 2]
             ELSE [sent |-> <<[trade_id |-> tradeId, hash |-> sigA.hash,
                               sig_seller |-> sigA.signature, sig_buyer |-> sigB.signature]>>,
                   result |-> IF relayOk THEN "accepted" ELSE "rejected",
                   ok |-> relayOk,
                   err |-> IF relayOk THEN "" ELSE "relay rejected",
                   calls |-> 2]

(***************************************************************************)
(* trade.js: submitBothSignatures.  Every error is caught and alerted; the *)
(* function always returns normally.                                       *)
(***************************************************************************)
submitBothSignatures(tradeId, buyerSig, sellerSig, relayOk) ==
  LET none == [sent |-> <<>>, result |-> "none", reload |-> FALSE]
      vb == verifyPeerSignature(buyerSig.body, buyerSig.hash, buyerSig.signature, buyerSig.pubkey)
      vs == verifyPeerSignature(sellerSig.body, sellerSig.hash, sellerSig.signature, sellerSig.pubkey)
      sc == submitComplete(tradeId, sellerSig, buyerSig, relayOk)
  IN IF ~vb.ok THEN none @@ [alert |-> vb.err, calls |-> vb.calls]
     ELSE IF ~vs.ok THEN none @@ [alert |-> vs.err, calls |-> vb.calls + vs.calls]
     ELSE IF ~sc.ok THEN [sent |-> sc.sent, result |-> sc.result, reload |-> FALSE,
                          alert |-> sc.err,
                          calls |-> vb.calls + vs.calls + sc.calls]
     ELSE [sent |-> sc.sent, result |-> sc.result, reload |-> TRUE,
           alert |-> "completion submitted", calls |-> vb.calls + vs.calls + sc.calls]

(***************************************************************************)
(* What one operation of the trade page does: the new cached proposal,     *)
(* the alert shown, the verify invocations, and what it sent and signed.   *)
(***************************************************************************)
Outcome(pending, alert, calls) ==
  [pending |-> pending, alert |-> alert, calls |-> calls, chatOut |-> <<>>, relayOut |-> <<>>,
   cancelOut |-> <<>>, relayResult |-> "none", mySig |-> <<>>, reload |-> FALSE]

(***************************************************************************)
(* trade.js: assignment of the two signatures to the seller/buyer roles    *)
(* in confirmCompleteTrade.                                                *)
(***************************************************************************)
\* variant: the peer is taken for the buyer when its key is the seller's
resolveRoles_swapped(pending, mySig, trade, identity) ==
  IF pending.pubkey = trade.seller_pubkey
    THEN [ok |-> TRUE, buyerSig |-> pending, sellerSig |-> mySig]
  ELSE IF pending.pubkey = trade.buyer_pubkey
    THEN [ok |-> TRUE, buyerSig |-> pending, sellerSig |-> mySig]
  ELSE [ok |-> FALSE, buyerSig |-> mySig, sellerSig |-> mySig]

resolveRoles(pending, mySig, trade, identity) ==
  IF pending.pubkey = trade.seller_pubkey
    THEN [ok |-> TRUE, sellerSig |-> pending, buyerSig |-> mySig]
  ELSE IF pending.pubkey = trade.buyer_pubkey
    THEN [ok |-> TRUE, buyerSig |-> pending, sellerSig |-> mySig]
  ELSE IF identity = trade.seller_pubkey
    THEN [ok |-> TRUE, sellerSig |-> mySig, buyerSig |-> pending]
  ELSE IF identity = trade.buyer_pubkey
    THEN [ok |-> TRUE, buyerSig |-> mySig, sellerSig |-> pending]
  ELSE [ok |-> FALSE, buyerSig |-> mySig, sellerSig |-> mySig]

(***************************************************************************)
(* trade.js: confirmCompleteTrade.  in: [tradeOk, hasSession, connected,   *)
(* now, sendOk, relayOk] are what getTrade, chat.getCurrentSession,        *)
(* chat.isChatConnected, Date.now, chat.sendMessage and the relay yield.   *)
(***************************************************************************)
\* variant: a proposal is sent without asking the chat for a session
confirmCompleteTrade_unchecked(in, trade, identity, pending) ==
  LET proposal == signComplete(PageTradeId, identity, in.now)
  IN [Outcome(pending, "request sent", 0)
        EXCEPT !.chatOut = <<[type |-> "TRADE_COMPLETE_REQUEST",
                              trade_id |-> PageTradeId, signature |-> proposal]>>,
               !.mySig = <<proposal>>]

confirmCompleteTrade(in, trade, identity, pending) ==
  LET proposal == signComplete(PageTradeId, identity, in.now)
      mySig == signCompleteWithBody(pending[1].body, identity, in.now)
      roles == resolveRoles(pending[1], mySig, trade, identity)
      sub == submitBothSignatures(PageTradeId, roles.buyerSig, roles.sellerSig, in.relayOk)
  IN IF ~in.tradeOk THEN Outcome(pending, "confirm failed: transport", 0)
     ELSE IF identity = NoKey THEN Outcome(pending, "no trade or identity", 0)
     ELSE IF ~in.hasSession THEN Outcome(pending, "select a chat peer first", 0)
     ELSE IF ~in.connected THEN Outcome(pending, "chat not connected", 0)
     ELSE IF pending = <<>>
       THEN [Outcome(pending, IF in.sendOk THEN "request sent" ELSE "confirm failed: send", 0)
               EXCEPT !.chatOut = IF in.sendOk
                                    THEN <<[type |-> "TRADE_COMPLETE_REQUEST",
                                            trade_id |-> PageTradeId, signature |-> proposal]>>
                                    ELSE <<>>,
                      !.mySig = <<proposal>>]
     ELSE IF ~roles.ok
       THEN [Outcome(pending, "cannot resolve roles", 0) EXCEPT !.mySig = <<mySig>>]
     ELSE [Outcome(<<>>, sub.alert, sub.calls)
             EXCEPT !.relayOut = sub.sent, !.relayResult = sub.result,
                    !.mySig = <<mySig>>, !.reload = sub.reload]

(***************************************************************************)
(* trade.js: cancelTrade and cancelCurrentTrade.  in: [dialogOk, now,      *)
(* relayOk] are what the confirm() dialog, Date.now and the relay yield.   *)
(***************************************************************************)
\* the request cancelTrade posts: the hash of the cancellation body and the
\* local signature over it
cancelTrade(tradeId, identity, now) ==
  LET h == hash(Body(tradeId, "CANCELLED", now))
  IN [trade_id |-> tradeId, hash |-> h, signature |-> sign(h, identity)]

\* variant: the cancellation also drops the cached peer proposal
cancelCurrentTrade_clearsPending(in, identity, pending) ==
  LET req == cancelTrade(PageTradeId, identity, in.now)
  IN IF ~in.dialogOk THEN Outcome(pending, "", 0)
     ELSE IF identity = NoKey THEN Outcome(pending, "cancel failed: no identity", 0)
     ELSE [Outcome(<<>>, IF in.relayOk THEN "cancel submitted" ELSE "cancel failed: transport", 0)
             EXCEPT !.cancelOut = <<req>>,
                    !.relayResult = IF in.relayOk THEN "accepted" ELSE "rejected",
                    !.reload = in.relayOk]

cancelCurrentTrade(in, identity, pending) ==
  LET req == cancelTrade(PageTradeId, identity, in.now)
  IN IF ~in.dialogOk THEN Outcome(pending, "", 0)
     ELSE IF identity = NoKey THEN Outcome(pending, "cancel failed: no identity", 0)
     ELSE [Outcome(pending, IF in.relayOk THEN "cancel submitted" ELSE "cancel failed: transport", 0)
             EXCEPT !.cancelOut = <<req>>,
                    !.relayResult = IF in.relayOk THEN "accepted" ELSE "rejected",
                    !.reload = in.relayOk]

\* the relay's record of the trade after it has answered a request
statusAfter(status, r) ==
  IF r.relayResult # "accepted" THEN status
  ELSE IF r.cancelOut # <<>> THEN "CANCELLED" ELSE "COMPLETED"

(***************************************************************************)
(* trade.js: verification and caching of a peer completion request.        *)
(* payload: [kind, complete, signature]; kind "text" is chat text that is  *)
(* not JSON, "other" is JSON of another type, "request" is a               *)
(* TRADE_COMPLETE_REQUEST; complete says whether payload.signature has all *)
(* of body, hash, signature and pubkey.                                    *)
(***************************************************************************)
\* variant: a verified peer request is counter-signed and submitted at once
tryHandleTradeCompleteRequest_autoAccept(payload, ready, pending) ==
  LET peerSig == payload.signature
      v == verifyPeerSignature(peerSig.body, peerSig.hash, peerSig.signature, peerSig.pubkey)
  IN IF payload.kind # "request" \/ ~ready \/ ~payload.complete \/ ~v.ok
       THEN Outcome(pending, "", 0)
       ELSE confirmCompleteTrade([tradeOk |-> TRUE, hasSession |-> TRUE, connected |-> TRUE,
                                  now |-> 1, sendOk |-> TRUE, relayOk |-> TRUE],
                                 TradeDoc,
                                 identityPub, <<peerSig>>)

tryHandleTradeCompleteRequest(payload, ready, pending) ==
  LET peerSig == payload.signature
      v == verifyPeerSignature(peerSig.body, peerSig.hash, peerSig.signature, peerSig.pubkey)
  IN IF payload.kind # "request" THEN Outcome(pending, "", 0)
     ELSE IF ~ready THEN Outcome(pending, "trade not ready", 0)
     ELSE IF ~payload.complete THEN Outcome(pending, "request lacks signature fields", 0)
     ELSE IF ~v.ok THEN Outcome(pending, v.err, v.calls)
     ELSE Outcome(<<peerSig>>, "peer requested completion", v.calls)

(***************************************************************************)
(* trade.js: handleNewMessage, the onNewMessage callback of the chat.      *)
(***************************************************************************)
handleNewMessage(payload, isOwn, ready, pending) ==
  IF ~isOwn
    THEN tryHandleTradeCompleteRequest(payload, ready, pending)
    ELSE Outcome(pending, "", 0)

(***************************************************************************)
(* Inputs of the trade page.                                               *)
(***************************************************************************)
\* bodies a peer may put in a completion request: the expected body at every
\* clock value, one with its keys in another order, one for another trade,
\* one with another result
PeerBodies == {Body(PageTradeId, "COMPLETED", ts) : ts \in Times}
                \cup {BodyReordered(PageTradeId, "COMPLETED", 1),
                      Body("T2", "COMPLETED", 1), Body(PageTradeId, "CANCELLED", 1)}

\* a hash that is not the hash of body b
WrongHash(b) == IF hash(b) = hash(Body(PageTradeId, "COMPLETED", 1))
                  THEN hash(Body(PageTradeId, "COMPLETED", 2))
                  ELSE hash(Body(PageTradeId, "COMPLETED", 1))

\* signature records over body b: with the right hash, signed by any key or
\* carrying garbage; with a wrong hash, signed over that hash by the claimed key
AllPeerSigs ==
  UNION {{SigRecord(b, hash(b), sg, k) :
            sg \in {sign(hash(b), k2) : k2 \in IdKeys} \cup {MalformedSig}, k \in IdKeys}
         \cup {SigRecord(b, WrongHash(b), sign(WrongHash(b), k), k) : k \in IdKeys} :
         b \in PeerBodies}

\* a signature of the local key can be presented only once the local key made it
Presentable(sg) == sg = MalformedSig \/ sg[2] # identityPub \/ sg[3] \in localSigned

PeerSigs == {ps \in AllPeerSigs : Presentable(ps.signature)}

NoSig == SigRecord(<<>>, <<>>, MalformedSig, NoKey)

\* what a chat message can carry: plain text, JSON of another type, a request
\* without the signature fields, or a request with a signature record
Payloads == {[kind |-> "text", complete |-> FALSE, signature |-> NoSig],
             [kind |-> "other", complete |-> FALSE, signature |-> NoSig],
             [kind |-> "request", complete |-> FALSE, signature |-> NoSig]}
              \cup {[kind |-> "request", complete |-> TRUE, signature |-> ps] : ps \in PeerSigs}

\* a message the local party authored carries text or one of its own proposals
OwnPayloads == {pl \in Payloads : pl.kind = "text" \/
                  (pl.complete /\ pl.signature.pubkey = identityPub
                     /\ pl.signature.signature = sign(pl.signature.hash, identityPub)
                     /\ pl.signature.hash = hash(pl.signature.body))}

\* what the collaborators answer during confirmCompleteTrade; when a
\* precondition fails the remaining answers are never asked for
ConfirmInputs == {in \in [tradeOk : BOOLEAN, hasSession : BOOLEAN, connected : BOOLEAN,
                          now : Times, sendOk : BOOLEAN, relayOk : BOOLEAN] :
                    (~in.tradeOk \/ ~in.hasSession \/ ~in.connected)
                       => (in.now = 1 /\ in.sendOk /\ in.relayOk)}

\* what the collaborators answer during cancelCurrentTrade
CancelInputs == {in \in [dialogOk : BOOLEAN, now : Times, relayOk : BOOLEAN] :
                   ~in.dialogOk => (in.now = 1 /\ in.relayOk)}

(***************************************************************************)
(* Actions of the trade page.                                              *)
(***************************************************************************)
\* the page before initTradePage has run
TradeFresh ==
  /\ pageReady = FALSE
  /\ pendingPeerSig = <<>>
  /\ localSigned = {}
  /\ op = "load"
  /\ alertMsg = ""
  /\ chatOut = <<>>
  /\ relayOut = <<>>
  /\ cancelOut = <<>>
  /\ relayResult = "none"
  /\ tradeStatus = "OPEN"
  /\ endedNotice = FALSE
  /\ verifyCalls = 0
  /\ mySigOut = <<>>

TradeInit ==
  /\ identityPub \in IdKeys \cup {NoKey}
  /\ tradeBuyer \in {NoKey, "B"}
  /\ TradeFresh

\* the trade page left alone while the chat module is examined
TradeIdle ==
  /\ identityPub = NoKey
  /\ tradeBuyer = NoKey
  /\ TradeFresh

\* trade.js initTradePage: the page caches the trade and the identity; a
\* visitor who is not the seller joins a trade that has no buyer yet; a trade
\* that is completed or cancelled gets the ended notice before the chat starts
InitTradePage(joinOk) ==
  /\ ~pageReady
  /\ op' = "initTradePage"
  /\ pageReady' = (identityPub # NoKey)
  /\ endedNotice' = (identityPub # NoKey /\ tradeStatus \in {"COMPLETED", "CANCELLED"})
  /\ cancelOut' = <<>>
  /\ UNCHANGED tradeStatus
  /\ alertMsg' = IF identityPub = NoKey THEN "no identity" ELSE ""
  /\ tradeBuyer' = IF identityPub # NoKey /\ identityPub # TradeSeller /\ tradeBuyer = NoKey /\ joinOk
                     THEN identityPub ELSE tradeBuyer
  /\ chatOut' = <<>> /\ relayOut' = <<>> /\ relayResult' = "none"
  /\ verifyCalls' = 0 /\ mySigOut' = <<>>
  /\ UNCHANGED <<identityPub, pendingPeerSig, localSigned>>
  /\ UNCHANGED <<chatVars, libVars>>

\* another party registers as the buyer at the relay
OtherBuyerJoins(k) ==
  /\ tradeBuyer = NoKey
  /\ k # identityPub /\ k # TradeSeller
  /\ tradeBuyer' = k
  /\ op' = "otherBuyerJoins"
  /\ alertMsg' = "" /\ chatOut' = <<>> /\ relayOut' = <<>> /\ relayResult' = "none"
  /\ cancelOut' = <<>>
  /\ verifyCalls' = 0 /\ mySigOut' = <<>>
  /\ UNCHANGED <<identityPub, pageReady, pendingPeerSig, localSigned, tradeStatus, endedNotice>>
  /\ UNCHANGED <<chatVars, libVars>>

\* the effect of one operation on the state of the page;
\* location.reload() starts the page anew, window.__pendingPeerSig included
Apply(r) ==
  /\ pendingPeerSig' = IF r.reload THEN <<>> ELSE r.pending
  /\ alertMsg' = r.alert
  /\ chatOut' = r.chatOut
  /\ relayOut' = r.relayOut
  /\ cancelOut' = r.cancelOut
  /\ relayResult' = r.relayResult
  /\ tradeStatus' = statusAfter(tradeStatus, r)
  /\ verifyCalls' = r.calls
  /\ mySigOut' = r.mySig
  /\ localSigned' = localSigned \cup {r.mySig[i].hash : i \in DOMAIN r.mySig}
  /\ pageReady' = IF r.reload THEN FALSE ELSE pageReady
  /\ endedNotice' = IF r.reload THEN FALSE ELSE endedNotice

\* a decrypted chat message reaches the onNewMessage callback
NewMessage(payload, isOwn) ==
  /\ pageReady
  /\ Apply(handleNewMessage(payload, isOwn, pageReady, pendingPeerSig))
  /\ op' = "newMessage"
  /\ UNCHANGED <<identityPub, tradeBuyer>>
  /\ UNCHANGED <<chatVars, libVars>>

\* the user presses "confirm completion": the button works until the ended
\* notice disables it, and the chat has a session only once the page is ready
Confirm(in) ==
  /\ ~endedNotice
  /\ in.hasSession => pageReady
  /\ Apply(confirmCompleteTrade(in, TradeDoc, identityPub, pendingPeerSig))
  /\ op' = "confirm"
  /\ UNCHANGED <<identityPub, tradeBuyer>>
  /\ UNCHANGED <<chatVars, libVars>>

\* the user presses "cancel trade"
Cancel(in) ==
  /\ ~endedNotice
  /\ Apply(cancelCurrentTrade(in, identityPub, pendingPeerSig))
  /\ op' = "cancel"
  /\ UNCHANGED <<identityPub, tradeBuyer>>
  /\ UNCHANGED <<chatVars, libVars>>

TradeNext ==
  \/ \E joinOk \in BOOLEAN : InitTradePage(joinOk)
  \/ \E k \in IdKeys : OtherBuyerJoins(k)
  \/ \E payload \in Payloads : NewMessage(payload, FALSE)
  \/ \E payload \in OwnPayloads : NewMessage(payload, TRUE)
  \/ \E in \in ConfirmInputs : Confirm(in)

\* the page of a user who may also cancel: proposals come in, none is confirmed
CancelNext ==
  \/ \E joinOk \in BOOLEAN : InitTradePage(joinOk)
  \/ \E payload \in Payloads : NewMessage(payload, FALSE)
  \/ \E in \in CancelInputs : Cancel(in)


(***************************************************************************)
(* Properties of the completion handshake.                                 *)
(***************************************************************************)
SubmissionsOf(out) == {out[i] : i \in DOMAIN out}

VerificationFails(ps) ==
  hash(ps.body) # ps.hash \/ verify(ps.hash, ps.signature, ps.pubkey) # "true"

VerificationAlerts == {"hash mismatch", "peer signature invalid", "verify threw"}

AllTrue(in) == in.tradeOk /\ in.hasSession /\ in.connected

\* C2: every completion request sent to the relay carries a sig_seller made by
\* the registered seller key and a sig_buyer made by the registered buyer key,
\* two distinct keys.
C2_SubmissionBySellerAndBuyer ==
  \A s \in SubmissionsOf(relayOut) :
    /\ s.sig_seller[2] = TradeSeller
    /\ s.sig_buyer[2] = tradeBuyer
    /\ s.sig_seller[2] # s.sig_buyer[2]

\* C3: a confirm that finds a cached peer proposal signs the peer's own body:
\* the local signature record carries that body and its hash, and every
\* request sent to the relay carries that hash with both signatures over it.
C3_CounterSignsPeerBody ==
  [][(op' = "confirm" /\ pendingPeerSig # <<>> /\ mySigOut' # <<>>)
       => /\ mySigOut'[1].body = pendingPeerSig[1].body
          /\ mySigOut'[1].hash = hash(pendingPeerSig[1].body)
          /\ mySigOut'[1].signature = sign(hash(pendingPeerSig[1].body), identityPub)
          /\ \A s \in SubmissionsOf(relayOut') :
               /\ s.hash = hash(pendingPeerSig[1].body)
               /\ s.sig_seller[3] = s.hash
               /\ s.sig_buyer[3] = s.hash]_tradeVars

C3_Witness ==
  /\ op = "confirm" /\ relayOut # <<>> /\ mySigOut # <<>>
  /\ mySigOut[1].body = BodyReordered(PageTradeId, "COMPLETED", 1)

\* C4: when the relay rejects the completion request of a confirm, the cached
\* peer proposal is still there afterwards.
C4_RejectionKeepsProposal ==
  (op = "confirm" /\ relayResult = "rejected") => pendingPeerSig # <<>>

\* C5: a cached peer proposal always has hash(body) equal to its claimed hash
\* and a signature that verifies under its key; a request failing either check
\* is answered by an alert and leaves the cached proposal as it was, with
\* nothing signed or sent.
C5_OnlyVerifiedProposalCached ==
  /\ \A i \in DOMAIN pendingPeerSig : ~VerificationFails(pendingPeerSig[i])
  /\ \A pl \in Payloads :
       (pageReady /\ pl.kind = "request" /\ pl.complete /\ VerificationFails(pl.signature))
         => LET r == handleNewMessage(pl, FALSE, pageReady, pendingPeerSig)
            IN /\ r.pending = pendingPeerSig
               /\ r.alert \in VerificationAlerts
               /\ r.relayOut = <<>> /\ r.chatOut = <<>> /\ r.mySig = <<>>
  /\ (op = "newMessage" /\ alertMsg \in VerificationAlerts)
       => (relayOut = <<>> /\ chatOut = <<>> /\ mySigOut = <<>>)

C5_Witness ==
  /\ op = "newMessage" /\ alertMsg = "peer signature invalid"
  /\ pendingPeerSig # <<>>

\* C6: a peer request whose claimed hash differs from hash(body) is rejected
\* with the hash error without any invocation of verify.
C6_HashCheckedBeforeVerify ==
  /\ \A pl \in Payloads :
       (pageReady /\ pl.kind = "request" /\ pl.complete /\ hash(pl.signature.body) # pl.signature.hash)
         => LET r == handleNewMessage(pl, FALSE, pageReady, pendingPeerSig)
            IN r.alert = "hash mismatch" /\ r.calls = 0 /\ r.pending = pendingPeerSig
  /\ (op = "newMessage" /\ alertMsg = "hash mismatch") => verifyCalls = 0

C6_Witness ==
  op = "newMessage" /\ alertMsg = "hash mismatch" /\ verifyCalls = 0

\* C7: receiving a peer request only caches it: that step signs nothing and
\* sends nothing; a completion request goes to the relay only in a confirm
\* step that found a proposal cached before it.
C7_NeverAutoAccepted ==
  [][/\ (op' = "newMessage")
          => (relayOut' = <<>> /\ chatOut' = <<>> /\ mySigOut' = <<>> /\ localSigned' = localSigned)
     /\ (relayOut' # <<>>) => (op' = "confirm" /\ pendingPeerSig # <<>>)]_tradeVars

C7_Witness ==
  /\ op = "newMessage" /\ alertMsg = "peer requested completion"
  /\ pendingPeerSig # <<>> /\ relayOut = <<>> /\ mySigOut = <<>>

\* C8: with seller S and buyer B registered, the local party one of them and
\* the cached proposal signed by the other, every confirm whose preconditions
\* hold sends sig_seller = S's signature and sig_buyer = B's signature.
C8_HonestRolesResolved ==
  \A i \in DOMAIN pendingPeerSig :
    LET p == pendingPeerSig[i]
    IN (/\ tradeBuyer \notin {NoKey, TradeSeller}
        /\ \/ identityPub = TradeSeller /\ p.pubkey = tradeBuyer
           \/ identityPub = tradeBuyer /\ p.pubkey = TradeSeller)
         => \A in \in ConfirmInputs :
              AllTrue(in) =>
                confirmCompleteTrade(in, TradeDoc, identityPub, pendingPeerSig).relayOut
                  = <<[trade_id |-> PageTradeId, hash |-> p.hash,
                       sig_seller |-> sign(p.hash, TradeSeller),
                       sig_buyer |-> sign(p.hash, tradeBuyer)]>>

C8_Witness ==
  /\ op = "confirm" /\ relayOut # <<>>
  /\ identityPub = tradeBuyer
  /\ relayOut[1].sig_seller[2] = TradeSeller
  /\ relayOut[1].sig_buyer[2] = identityPub

(***************************************************************************)
(* Chat session manager (chat.js).  The repository holds two variants of   *)
(* the module: "defensive" (normalising, unnamed part_001) and "legacy"    *)
(* (client/js/chat.js).                                                    *)
(*                                                                         *)
(* A value found where a chat public key is expected is <<enc, k>>: the    *)
(* key k delivered raw, as the JSON text {"pubkey": k}, as the object      *)
(* {pubkey: k}, raw with surrounding white space, or text outside the      *)
(* base64 alphabet; or it is missing.                                      *)
(***************************************************************************)
Variants == {"defensive", "legacy"}
MyChatKey == "M"
PeerChatKeys == {"P", "Q"}
Encodings == {"raw", "json", "obj", "padded", "bad"}
NullKey == <<"null", "">>
Raw(k) == <<"raw", k>>
\* every encoding of peer P; the other keys raw
WireKeys == {<<e, "P">> : e \in Encodings} \cup {Raw("Q"), Raw(MyChatKey)}
ChatTradeId == "T1"

\* the trade of a second initChat on the same page
OtherTradeId == "T2"

\* currentTradeId before initChat and after closeChat
NoTrade == "none"

normalizeChatPubKey_defensive(value) ==
  IF value[1] \in {"raw", "json", "obj", "padded"} THEN Raw(value[2]) ELSE NullKey

normalizeChatPubKey_legacy(value) ==
  IF value[1] \in {"raw", "json", "obj"} THEN Raw(value[2]) ELSE NullKey

normalizeChatPubKey(v, value) ==
  IF v = "defensive" THEN normalizeChatPubKey_defensive(value)
  ELSE normalizeChatPubKey_legacy(value)

\* crypto.js deriveChatKey: atob() accepts base64 text and skips white space,
\* and throws on anything else; the key depends on the peer and on the trade
deriveChatKeyThrows(peer) == peer[1] \notin {"raw", "padded"}

deriveChatKey(peer, tradeId) == [peer |-> peer[2], ctx |-> tradeId]

\* ciphertexts: JSON text of {iv, data} sealed under a chat key, or text that
\* JSON.parse rejects
MsgIds == {1, 2}
Sealed(k, n) == [form |-> "json", sealedWith |-> deriveChatKey(Raw(k), ChatTradeId), n |-> n]

parseCiphertextFails(ct) == ct.form = "invalid"

\* crypto.js decrypt: AES-GCM opens only under the key that sealed
decryptThrows(chatKey, ct) == ct.sealedWith # chatKey

(***************************************************************************)
(* The session Map.                                                        *)
(***************************************************************************)
sessionKeys(m) == {m[i].peerChatPubKey : i \in DOMAIN m}

sessionsHas(m, k) == k \in sessionKeys(m)

sessionsGet(m, k) == m[CHOOSE i \in DOMAIN m : m[i].peerChatPubKey = k]

\* Map.set: a present key keeps its place and gets the new value
sessionsSet(m, k, sess) ==
  IF sessionsHas(m, k)
    THEN [i \in DOMAIN m |-> IF m[i].peerChatPubKey = k THEN sess ELSE m[i]]
    ELSE Append(m, sess)

newSession(k, chatKey, oid) ==
  [peerChatPubKey |-> k, chatKey |-> chatKey, messages |-> <<>>, unread |-> 0, oid |-> oid]

SessionCount(m, k) == Cardinality({i \in DOMAIN m : m[i].peerChatPubKey = k})

derivedFor(d, k) == IF k \in DOMAIN d THEN d[k] ELSE 0

(***************************************************************************)
(* chat.js: the role filter and the synchronous head of createSession.     *)
(***************************************************************************)
\* variant: the buyer accepts any peer
buyerRejects_never(key) == FALSE

\* "buyer only accepts the seller": the test made on JOIN, CHAT and history
buyerRejects(key) ==
  ~isSeller /\ sellerChatPubKey # NullKey /\ key # sellerChatPubKey

\* what createSession does before it suspends in deriveChatKey:
\* "throw", "none" (own key), "existing", or "derive" under session key .key;
\* with no key pair loaded (my = NullKey) chatKeyPair.privateKey throws
createSessionStart(v, m, my, peer) ==
  IF v = "defensive"
    THEN LET normalizedPeer == normalizeChatPubKey(v, peer)
         IN IF normalizedPeer = NullKey THEN [res |-> "throw", key |-> NullKey]
            ELSE IF normalizedPeer = my THEN [res |-> "none", key |-> normalizedPeer]
            ELSE IF sessionsHas(m, normalizedPeer) THEN [res |-> "existing", key |-> normalizedPeer]
            ELSE IF my = NullKey THEN [res |-> "throw", key |-> NullKey]
            ELSE [res |-> "derive", key |-> normalizedPeer]
    ELSE IF sessionsHas(m, peer) THEN [res |-> "existing", key |-> peer]
         ELSE IF peer[1] \in {"obj", "null"} THEN [res |-> "throw", key |-> NullKey]
         ELSE IF my = NullKey THEN [res |-> "throw", key |-> NullKey]
         ELSE IF deriveChatKeyThrows(peer) THEN [res |-> "throw", key |-> NullKey]
         ELSE [res |-> "derive", key |-> peer]

\* text that JSON.parse rejects; also carried by handlers that hold no message
NoCt == [form |-> "invalid", sealedWith |-> deriveChatKey(Raw(MyChatKey), "none"), n |-> 1]

\* a handler suspended in deriveChatKey (stage "derive") or decrypt ("decrypt")
Task(kind, stage, key, sender, ct, chatKey, oid) ==
  [kind |-> kind, stage |-> stage, key |-> key, sender |-> sender, ct |-> ct,
   chatKey |-> chatKey, oid |-> oid]

\* createSession hands currentTradeId to deriveChatKey before it suspends
DeriveTaskFor(tradeId, kind, key, sender, ct) ==
  Task(kind, "derive", key, sender, ct, deriveChatKey(key, tradeId), 0)

DeriveTask(kind, key, sender, ct) == DeriveTaskFor(currentTradeId, kind, key, sender, ct)

DecryptTask(kind, sess, sender, ct) ==
  Task(kind, "decrypt", sess.peerChatPubKey, sender, ct, sess.chatKey, sess.oid)

RemoveAt(q, i) == SubSeq(q, 1, i - 1) \o SubSeq(q, i + 1, Len(q))

HistoryBusy == \E i \in DOMAIN tasks : tasks[i].kind = "hist"

(***************************************************************************)
(* chat.js: switchSession and the append of a decrypted message.           *)
(***************************************************************************)
switchSessionKey(v, peer) == IF v = "defensive" THEN normalizeChatPubKey(v, peer) ELSE peer

\* the session Map after switchSession succeeded for key k
switchedSessions(v, m, k) ==
  IF v = "defensive"
    THEN [i \in DOMAIN m |-> IF m[i].peerChatPubKey = k THEN [m[i] EXCEPT !.unread = 0] ELSE m[i]]
    ELSE m

\* variant: the pointer is moved whether or not the Map holds the key
switchSession_unchecked(v, m, current, peer) ==
  LET k == switchSessionKey(v, peer)
  IN IF k = NullKey
       THEN [ok |-> FALSE, current |-> current, sessions |-> m]
       ELSE [ok |-> TRUE, current |-> k, sessions |-> switchedSessions(v, m, k)]

\* switchSession(peer): what it returns, the active pointer and the Map afterwards
switchSession(v, m, current, peer) ==
  LET k == switchSessionKey(v, peer)
  IN IF k = NullKey \/ ~sessionsHas(m, k)
       THEN [ok |-> FALSE, current |-> current, sessions |-> m]
       ELSE [ok |-> TRUE, current |-> k, sessions |-> switchedSessions(v, m, k)]

Message(n, isOwn, via) == [n |-> n, isOwn |-> isOwn, via |-> via]

\* variant: messages loaded from the history count as unread too
appendDecrypted_countsHistory(v, m, t, current) ==
  LET isOwn == t.sender = myChatPubKeyStr
      bump == ~isOwn /\ current # t.key
  IN [i \in DOMAIN m |->
        IF m[i].peerChatPubKey = t.key
          THEN [m[i] EXCEPT !.messages = Append(@, Message(t.ct.n, isOwn, IF t.kind = "chat" THEN "live" ELSE "history")),
                            !.unread = IF bump THEN @ + 1 ELSE @]
          ELSE m[i]]

\* the session Map after the handler of task t has decrypted its message
appendDecrypted(v, m, t, current) ==
  LET live == t.kind = "chat"
      isOwn == IF v = "legacy" /\ live THEN FALSE ELSE t.sender = myChatPubKeyStr
      target == IF v = "defensive"
                  THEN {i \in DOMAIN m : m[i].peerChatPubKey = t.key}
                  ELSE {i \in DOMAIN m : m[i].peerChatPubKey = t.key /\ m[i].oid = t.oid}
      bump == IF v = "defensive"
                THEN live /\ ~isOwn /\ current # t.key
                ELSE live /\ current # t.sender
  IN [i \in DOMAIN m |->
        IF i \in target
          THEN [m[i] EXCEPT !.messages = Append(@, Message(t.ct.n, isOwn, IF live THEN "live" ELSE "history")),
                            !.unread = IF bump THEN @ + 1 ELSE @]
          ELSE m[i]]

(***************************************************************************)
(* Inputs of the chat module.                                              *)
(***************************************************************************)
\* chat keys the relay's chat-info may hold for the counterparty
InfoKeys == {NullKey, Raw("P"), <<"json", "P">>}

HistoryRecord(sender, buyer, ct) ==
  [sender_pubkey |-> sender, buyer_chat_pubkey |-> buyer, ciphertext |-> ct]

\* stored records: from peers, own ones with or without the buyer's chat key,
\* one without sender, one that is not JSON, one sealed under another key
HistoryRecords ==
  { HistoryRecord(Raw("P"), Raw("P"), Sealed("P", 1)),
    HistoryRecord(<<"json", "P">>, Raw("P"), Sealed("P", 1)),
    HistoryRecord(Raw("Q"), Raw("Q"), Sealed("Q", 1)),
    HistoryRecord(Raw(MyChatKey), Raw("P"), Sealed("P", 2)),
    HistoryRecord(Raw(MyChatKey), NullKey, Sealed("P", 2)),
    HistoryRecord(NullKey, NullKey, Sealed("P", 1)),
    HistoryRecord(Raw("P"), Raw("P"), NoCt),
    HistoryRecord(Raw("P"), Raw("P"), Sealed("Q", 1)) }

\* JOIN signals: <<chat_pubkey, identity_pubkey is the local identity>>
JoinSignals == {<<w, FALSE>> : w \in WireKeys} \cup {<<Raw(MyChatKey), TRUE>>, <<Raw("P"), TRUE>>}

\* CHAT messages: <<sender_chat_pubkey, ciphertext>>
ChatSignals ==
  {<<w, Sealed("P", 1)>> : w \in WireKeys \cup {NullKey}}
  \cup {<<Raw("P"), Sealed("P", 2)>>, <<Raw("P"), Sealed("Q", 1)>>, <<Raw("P"), NoCt>>,
        <<Raw("Q"), Sealed("Q", 1)>>}

\* what GET /chat/history may return: nothing, any one record, or an
\* exchange of two
HistoryLists ==
  {<<>>} \cup {<<r>> : r \in HistoryRecords}
  \cup { <<HistoryRecord(Raw(MyChatKey), Raw("P"), Sealed("P", 2)),
           HistoryRecord(Raw("P"), Raw("P"), Sealed("P", 1))>>,
         <<HistoryRecord(Raw("Q"), Raw("Q"), Sealed("Q", 1)),
           HistoryRecord(Raw("P"), Raw("P"), Sealed("P", 1))>> }

\* every list of at most MaxHistory stored records
AllHistoryLists == UNION {[1..n -> HistoryRecords] : n \in 0..MaxHistory}

(***************************************************************************)
(* Actions of the chat module.                                             *)
(***************************************************************************)
\* the module as loaded: no initChat yet
ChatClosed ==
  /\ currentTradeId = NoTrade
  /\ initPc = "closed"
  /\ isSeller = FALSE
  /\ sellerChatPubKey = NullKey
  /\ myChatPubKeyStr = NullKey
  /\ sessions = <<>>
  /\ currentSessionPeer = NullKey
  /\ tasks = <<>>
  /\ history = <<>>
  /\ socketLive = FALSE
  /\ derivations = <<>>
  /\ delivered = 0
  /\ uiHasSessions = FALSE
  /\ lastIn = NullKey
  /\ closed = FALSE
  /\ sendOutcome = "none"

ChatInit ==
  /\ variant \in Variants
  /\ ChatClosed

\* the chat module left alone while the trade page is examined; trade.js
\* imports client/js/chat.js
ChatIdle ==
  /\ variant = "legacy"
  /\ ChatClosed

\* where initChat goes on once establishInitialSession has returned; after
\* closeChat the next call finds currentTradeId or identity null and throws
AfterInitial ==
  IF closed THEN "failed" ELSE IF variant = "defensive" THEN "fetch" ELSE "opening"

\* initChat up to the key derivation of establishInitialSession
InitChat(seller, peerInfo) ==
  /\ initPc = "closed"
  /\ isSeller' = seller
  /\ myChatPubKeyStr' = Raw(MyChatKey)
  /\ LET peerKey == normalizeChatPubKey(variant, peerInfo)
         start == IF peerKey = NullKey THEN [res |-> "skip", key |-> NullKey]
                  ELSE createSessionStart(variant, sessions, Raw(MyChatKey), peerKey)
     IN /\ sellerChatPubKey' = IF seller THEN NullKey ELSE peerKey
        /\ IF start.res = "derive"
             THEN /\ tasks' = Append(tasks, DeriveTaskFor(ChatTradeId, "initial", start.key, NullKey, NoCt))
                  /\ initPc' = "initial"
             ELSE /\ tasks' = tasks
                  /\ initPc' = AfterInitial
  /\ currentTradeId' = ChatTradeId
  /\ UNCHANGED <<variant, closed, sessions, currentSessionPeer, history, socketLive, derivations,
                 delivered, uiHasSessions>>
  /\ lastIn' = NullKey
  /\ sendOutcome' = "none"
  /\ UNCHANGED <<tradeVars, libVars>>

\* initChat called again, for another trade, after the first call returned or
\* threw and with no closeChat in between: chat.js keeps the Map, the active pointer and the recorded seller
\* key, the other module clears them; both set the new currentTradeId and go
\* on as the first call did
ReInitChat(seller, peerInfo) ==
  /\ initPc \in {"live", "failed"}
  /\ currentTradeId = ChatTradeId
  /\ currentTradeId' = OtherTradeId
  /\ closed' = FALSE
  /\ isSeller' = seller
  /\ myChatPubKeyStr' = Raw(MyChatKey)
  /\ LET kept == IF variant = "defensive" THEN <<>> ELSE sessions
         peerKey == normalizeChatPubKey(variant, peerInfo)
         start == IF peerKey = NullKey THEN [res |-> "skip", key |-> NullKey]
                  ELSE createSessionStart(variant, kept, Raw(MyChatKey), peerKey)
     IN /\ sessions' = kept
        /\ currentSessionPeer' = IF variant = "defensive" THEN NullKey ELSE currentSessionPeer
        /\ sellerChatPubKey' = IF variant = "defensive"
                                 THEN (IF seller THEN NullKey ELSE peerKey)
                                 ELSE (IF seller \/ peerKey = NullKey THEN sellerChatPubKey ELSE peerKey)
        /\ IF start.res = "derive"
             THEN /\ tasks' = Append(tasks, DeriveTaskFor(OtherTradeId, "initial", start.key, NullKey, NoCt))
                  /\ initPc' = "initial"
             ELSE /\ tasks' = tasks
                  /\ initPc' = IF variant = "defensive" THEN "fetch" ELSE "opening"
  /\ UNCHANGED <<variant, history, socketLive, derivations, delivered, uiHasSessions>>
  /\ lastIn' = NullKey
  /\ sendOutcome' = "none"
  /\ UNCHANGED <<tradeVars, libVars>>

\* deriveChatKey returns to createSession: the session is stored, the page is
\* told (its first list item makes it call switchSession), and the caller
\* goes on to decrypt or returns
ResumeDerive(i) ==
  /\ i \in DOMAIN tasks
  /\ tasks[i].stage = "derive"
  /\ LET t == tasks[i]
         oid == derivedFor(derivations, t.key) + 1
         sess == newSession(t.key, t.chatKey, oid)
         stored == sessionsSet(sessions, t.key, sess)
         switch == ~uiHasSessions
     IN /\ derivations' = (t.key :> oid) @@ derivations
        /\ sessions' = IF switch THEN switchedSessions(variant, stored, t.key) ELSE stored
        /\ currentSessionPeer' = IF switch THEN t.key ELSE currentSessionPeer
        /\ uiHasSessions' = TRUE
        /\ tasks' = IF t.kind \in {"chat", "hist"}
                      THEN [tasks EXCEPT ![i] = DecryptTask(t.kind, sess, t.sender, t.ct)]
                      ELSE RemoveAt(tasks, i)
        /\ initPc' = IF t.kind = "initial" THEN AfterInitial ELSE initPc
        /\ history' = IF t.kind = "hist" /\ variant = "legacy" /\ parseCiphertextFails(t.ct)
                        THEN <<>> ELSE history
  /\ UNCHANGED <<variant, currentTradeId, closed, isSeller, sellerChatPubKey, myChatPubKeyStr, socketLive, delivered>>
  /\ lastIn' = NullKey
  /\ sendOutcome' = "none"
  /\ UNCHANGED <<tradeVars, libVars>>

\* decrypt returns (or throws) to the handler that awaited it
ResumeDecrypt(i) ==
  /\ i \in DOMAIN tasks
  /\ tasks[i].stage = "decrypt"
  /\ LET t == tasks[i]
         failed == parseCiphertextFails(t.ct) \/ decryptThrows(t.chatKey, t.ct)
     IN sessions' = IF failed THEN sessions
                    ELSE appendDecrypted(variant, sessions, t, currentSessionPeer)
  /\ tasks' = RemoveAt(tasks, i)
  /\ UNCHANGED <<variant, currentTradeId, closed, initPc, isSeller, sellerChatPubKey, myChatPubKeyStr, currentSessionPeer,
                 history, socketLive, derivations, delivered, uiHasSessions>>
  /\ lastIn' = NullKey
  /\ sendOutcome' = "none"
  /\ UNCHANGED <<tradeVars, libVars>>

\* getChatHistory returns the stored records
FetchHistory(records) ==
  /\ initPc = "fetch"
  /\ history' = records
  /\ initPc' = "history"
  /\ UNCHANGED <<variant, currentTradeId, closed, isSeller, sellerChatPubKey, myChatPubKeyStr, sessions, currentSessionPeer,
                 tasks, socketLive, derivations, delivered, uiHasSessions>>
  /\ lastIn' = NullKey
  /\ sendOutcome' = "none"
  /\ UNCHANGED <<tradeVars, libVars>>

\* openChatSocket resolves and the message handler is attached, or it rejects
OpenSocket(ok) ==
  /\ initPc = "opening"
  /\ closed => ~ok
  /\ socketLive' = ok
  /\ initPc' = IF ~ok THEN "failed" ELSE IF variant = "defensive" THEN "live" ELSE "fetch"
  /\ UNCHANGED <<variant, currentTradeId, closed, isSeller, sellerChatPubKey, myChatPubKeyStr, sessions, currentSessionPeer,
                 tasks, history, derivations, delivered, uiHasSessions>>
  /\ lastIn' = NullKey
  /\ sendOutcome' = "none"
  /\ UNCHANGED <<tradeVars, libVars>>

\* the socket opens while initChat awaits openChatSocket: the handler was
\* pushed when the socket was created, so from the open event on inbound
\* messages are dispatched to it, auth_response or not
SocketOpens ==
  /\ initPc = "opening"
  /\ ~closed
  /\ ~socketLive
  /\ socketLive' = TRUE
  /\ UNCHANGED <<variant, currentTradeId, closed, initPc, isSeller, sellerChatPubKey, myChatPubKeyStr, sessions,
                 currentSessionPeer, tasks, history, derivations, delivered, uiHasSessions>>
  /\ lastIn' = NullKey
  /\ sendOutcome' = "none"
  /\ UNCHANGED <<tradeVars, libVars>>

\* the 5 s timer rejects openChatSocket and initChat throws; the timer
\* callback closes nothing, so the socket and its handler stay as they are
OpenSocketTimeout ==
  /\ initPc = "opening"
  /\ initPc' = "failed"
  /\ UNCHANGED <<variant, currentTradeId, closed, isSeller, sellerChatPubKey, myChatPubKeyStr, sessions,
                 currentSessionPeer, tasks, history, socketLive, derivations, delivered,
                 uiHasSessions>>
  /\ lastIn' = NullKey
  /\ sendOutcome' = "none"
  /\ UNCHANGED <<tradeVars, libVars>>

\* one round of the loop of loadChatHistory, up to its first suspension
HistoryStart ==
  /\ initPc = "history"
  /\ history # <<>>
  /\ ~HistoryBusy
  /\ LET msg == Head(history)
         sender == IF variant = "defensive" THEN normalizeChatPubKey(variant, msg.sender_pubkey)
                   ELSE msg.sender_pubkey
         buyer == IF variant = "defensive" THEN normalizeChatPubKey(variant, msg.buyer_chat_pubkey)
                  ELSE msg.buyer_chat_pubkey
         skip == IF variant = "defensive"
                   THEN \/ sender = NullKey
                        \/ parseCiphertextFails(msg.ciphertext)
                        \/ (sender # myChatPubKeyStr /\ buyerRejects(sender))
                   ELSE sender # NullKey /\ buyerRejects(sender)
         sessionKey == IF variant = "defensive"
                         THEN IF sender = myChatPubKeyStr
                                THEN (IF isSeller THEN buyer ELSE sellerChatPubKey)
                                ELSE sender
                         ELSE IF sender # NullKey /\ sender # myChatPubKeyStr THEN sender
                              ELSE IF isSeller THEN buyer ELSE NullKey
         start == createSessionStart(variant, sessions, myChatPubKeyStr, sessionKey)
         \* legacy, no owning session: the first session whose key opens the record
         openers == {i \in DOMAIN sessions : ~decryptThrows(sessions[i].chatKey, msg.ciphertext)}
         first == CHOOSE i \in openers : \A j \in openers : i <= j
     IN IF skip \/ (variant = "defensive" /\ sessionKey = NullKey)
          THEN /\ history' = Tail(history)
               /\ UNCHANGED <<sessions, tasks>>
        ELSE IF sessionKey = NullKey
          THEN /\ history' = IF parseCiphertextFails(msg.ciphertext) THEN <<>> ELSE Tail(history)
               /\ tasks' = tasks
               /\ sessions' = IF parseCiphertextFails(msg.ciphertext) \/ openers = {}
                                THEN sessions
                                ELSE [sessions EXCEPT ![first].messages =
                                        Append(@, Message(msg.ciphertext.n, sender = myChatPubKeyStr, "history"))]
        ELSE IF start.res = "derive"
          THEN /\ history' = Tail(history)
               /\ tasks' = Append(tasks, DeriveTask("hist", start.key, sender, msg.ciphertext))
               /\ sessions' = sessions
        ELSE IF start.res = "existing" /\ variant = "legacy" /\ parseCiphertextFails(msg.ciphertext)
          THEN /\ history' = <<>>
               /\ UNCHANGED <<sessions, tasks>>
        ELSE IF start.res = "existing"
          THEN /\ history' = Tail(history)
               /\ tasks' = Append(tasks, DecryptTask("hist", sessionsGet(sessions, start.key),
                                                     sender, msg.ciphertext))
               /\ sessions' = sessions
        ELSE /\ history' = IF variant = "legacy" THEN <<>> ELSE Tail(history)
             /\ UNCHANGED <<sessions, tasks>>
  /\ UNCHANGED <<variant, currentTradeId, closed, initPc, isSeller, sellerChatPubKey, myChatPubKeyStr, currentSessionPeer,
                 socketLive, derivations, delivered, uiHasSessions>>
  /\ lastIn' = NullKey
  /\ sendOutcome' = "none"
  /\ UNCHANGED <<tradeVars, libVars>>

\* the end of loadChatHistory
HistoryDone ==
  /\ initPc = "history"
  /\ history = <<>>
  /\ ~HistoryBusy
  /\ currentSessionPeer' = IF variant = "defensive" /\ currentSessionPeer = NullKey /\ sessions # <<>>
                             THEN sessions[1].peerChatPubKey ELSE currentSessionPeer
  /\ initPc' = IF variant = "legacy" THEN "live" ELSE IF closed THEN "failed" ELSE "opening"
  /\ UNCHANGED <<variant, currentTradeId, closed, isSeller, sellerChatPubKey, myChatPubKeyStr, sessions, tasks, history,
                 socketLive, derivations, delivered, uiHasSessions>>
  /\ lastIn' = NullKey
  /\ sendOutcome' = "none"
  /\ UNCHANGED <<tradeVars, libVars>>

\* handleJoinMessage up to its suspension: the handlers in flight afterwards
handleJoinMessage(chatPub, fromSelf) ==
  LET normalized == normalizeChatPubKey(variant, chatPub)
      ignore == IF variant = "defensive"
                  THEN \/ normalized = NullKey
                       \/ fromSelf
                       \/ normalized = myChatPubKeyStr
                       \/ buyerRejects(normalized)
                  ELSE normalized = NullKey \/ buyerRejects(normalized)
      start == createSessionStart(variant, sessions, myChatPubKeyStr, normalized)
  IN IF ~ignore /\ start.res = "derive"
       THEN Append(tasks, DeriveTask("join", start.key, normalized, NoCt))
       ELSE tasks

\* handleChatMessage up to its first suspension: the handlers in flight afterwards
handleChatMessage(senderPub, ct) ==
  LET sender == IF variant = "defensive" THEN normalizeChatPubKey(variant, senderPub)
                ELSE senderPub
      ignore == IF variant = "defensive"
                  THEN \/ sender = NullKey
                       \/ parseCiphertextFails(ct)
                       \/ sender = myChatPubKeyStr
                       \/ buyerRejects(sender)
                  ELSE \/ sender[1] \in {"obj", "null"}
                       \/ sender = myChatPubKeyStr
                       \/ buyerRejects(sender)
      start == createSessionStart(variant, sessions, myChatPubKeyStr, sender)
  IN IF ignore THEN tasks
     ELSE IF start.res = "derive"
       THEN Append(tasks, DeriveTask("chat", start.key, sender, ct))
     ELSE IF start.res = "existing"
       THEN Append(tasks, DecryptTask("chat", sessionsGet(sessions, start.key), sender, ct))
     ELSE tasks

\* the socket delivers {type: "JOIN", identity_pubkey, chat_pubkey}
DeliverJoin(chatPub, fromSelf) ==
  /\ socketLive
  /\ delivered < MaxDeliver
  /\ delivered' = delivered + 1
  /\ lastIn' = chatPub
  /\ tasks' = handleJoinMessage(chatPub, fromSelf)
  /\ UNCHANGED <<variant, currentTradeId, closed, initPc, isSeller, sellerChatPubKey, myChatPubKeyStr, sessions,
                 currentSessionPeer, history, socketLive, derivations, uiHasSessions>>
  /\ sendOutcome' = "none"
  /\ UNCHANGED <<tradeVars, libVars>>

\* the socket delivers {type: "CHAT", sender_chat_pubkey, ciphertext}
DeliverChat(senderPub, ct) ==
  /\ socketLive
  /\ delivered < MaxDeliver
  /\ delivered' = delivered + 1
  /\ lastIn' = senderPub
  /\ tasks' = handleChatMessage(senderPub, ct)
  /\ UNCHANGED <<variant, currentTradeId, closed, initPc, isSeller, sellerChatPubKey, myChatPubKeyStr, sessions,
                 currentSessionPeer, history, socketLive, derivations, uiHasSessions>>
  /\ sendOutcome' = "none"
  /\ UNCHANGED <<tradeVars, libVars>>

\* the socket delivers PONG, a message of unknown type, or text that is not JSON
DeliverOther ==
  /\ socketLive
  /\ delivered < MaxDeliver
  /\ delivered' = delivered + 1
  /\ lastIn' = NullKey
  /\ UNCHANGED <<variant, currentTradeId, closed, initPc, isSeller, sellerChatPubKey, myChatPubKeyStr, sessions,
                 currentSessionPeer, tasks, history, socketLive, derivations, uiHasSessions>>
  /\ sendOutcome' = "none"
  /\ UNCHANGED <<tradeVars, libVars>>

\* switchSession(peerChatPubKey), called by the page
SwitchSession(peer) ==
  /\ initPc # "closed"
  /\ LET r == switchSession(variant, sessions, currentSessionPeer, peer)
     IN /\ r.ok
        /\ currentSessionPeer' = r.current
        /\ sessions' = r.sessions
  /\ UNCHANGED <<variant, currentTradeId, closed, initPc, isSeller, sellerChatPubKey, myChatPubKeyStr, tasks, history,
                 socketLive, derivations, delivered, uiHasSessions>>
  /\ lastIn' = NullKey
  /\ sendOutcome' = "none"
  /\ UNCHANGED <<tradeVars, libVars>>

\* sendMessage suspended in encrypt: the session read before the await
SendTask(sess) ==
  Task("send", "encrypt", sess.peerChatPubKey, myChatPubKeyStr, NoCt, sess.chatKey, sess.oid)

\* messages the page has sent or is sending
SentCount ==
  Cardinality({i \in DOMAIN tasks : tasks[i].kind = "send"})
  + Cardinality(UNION {{<<i, j>> : j \in {j \in DOMAIN sessions[i].messages :
                                              sessions[i].messages[j].via = "sent"}} :
                       i \in DOMAIN sessions})

\* variant: the guards of sendMessage left out
sendMessageStart_unguarded(m, current) ==
  [res |-> "encrypting",
   tasks |-> Append(tasks, SendTask(IF sessionsHas(m, current) THEN sessionsGet(m, current)
                                    ELSE newSession(current, deriveChatKey(current, ChatTradeId), 0)))]

\* sendMessage up to its suspension in encrypt: the outcome and the handlers
\* in flight afterwards
sendMessageStart(m, current) ==
  IF current = NullKey THEN [res |-> "no active session", tasks |-> tasks]
  ELSE IF ~sessionsHas(m, current) THEN [res |-> "session missing", tasks |-> tasks]
  ELSE [res |-> "encrypting", tasks |-> Append(tasks, SendTask(sessionsGet(m, current)))]

\* the session Map after sendMessage has stored the local copy of its message
appendSent(v, m, t, current) ==
  LET target == IF v = "defensive"
                  THEN {i \in DOMAIN m : m[i].peerChatPubKey = current}
                  ELSE {i \in DOMAIN m : m[i].peerChatPubKey = t.key /\ m[i].oid = t.oid}
  IN [i \in DOMAIN m |->
        IF i \in target THEN [m[i] EXCEPT !.messages = Append(@, Message(t.ct.n, TRUE, "sent"))]
        ELSE m[i]]

\* sendMessage(text), called by the page
SendMessage ==
  /\ initPc # "closed"
  /\ SentCount < MaxSend
  /\ LET start == sendMessageStart(sessions, currentSessionPeer)
     IN /\ sendOutcome' = start.res
        /\ tasks' = start.tasks
  /\ lastIn' = NullKey
  /\ UNCHANGED <<variant, currentTradeId, closed, initPc, isSeller, sellerChatPubKey, myChatPubKeyStr, sessions,
                 currentSessionPeer, history, socketLive, derivations, delivered, uiHasSessions>>
  /\ UNCHANGED <<tradeVars, libVars>>

\* encrypt returns to sendMessage; open: the socket takes the message
ResumeSend(i, open) ==
  /\ i \in DOMAIN tasks
  /\ tasks[i].stage = "encrypt"
  /\ open => socketLive
  /\ sessions' = IF variant = "defensive" /\ ~open THEN sessions
                 ELSE appendSent(variant, sessions, tasks[i], currentSessionPeer)
  /\ sendOutcome' = IF open THEN "sent" ELSE "transport error"
  /\ tasks' = RemoveAt(tasks, i)
  /\ lastIn' = NullKey
  /\ UNCHANGED <<variant, currentTradeId, closed, initPc, isSeller, sellerChatPubKey, myChatPubKeyStr,
                 currentSessionPeer, history, socketLive, derivations, delivered, uiHasSessions>>
  /\ UNCHANGED <<tradeVars, libVars>>

\* closeChat(), called by the page; handlers in flight stay in flight
CloseChat ==
  /\ initPc # "closed"
  /\ ~closed
  /\ closed' = TRUE
  /\ socketLive' = FALSE
  /\ myChatPubKeyStr' = NullKey
  /\ isSeller' = IF variant = "defensive" THEN FALSE ELSE isSeller
  /\ sellerChatPubKey' = IF variant = "defensive" THEN NullKey ELSE sellerChatPubKey
  /\ sessions' = <<>>
  /\ currentSessionPeer' = NullKey
  /\ lastIn' = NullKey
  /\ sendOutcome' = "none"
  /\ currentTradeId' = NoTrade
  /\ UNCHANGED <<variant, initPc, tasks, history, derivations, delivered, uiHasSessions>>
  /\ UNCHANGED <<tradeVars, libVars>>

\* what initChat does once it has started, on a socket that stays silent;
\* lists: what GET /chat/history may return
LoadRun(lists) ==
  \/ \E i \in DOMAIN tasks : ResumeDerive(i)
  \/ \E i \in DOMAIN tasks : ResumeDecrypt(i)
  \/ \E records \in lists : FetchHistory(records)
  \/ \E ok \in BOOLEAN : OpenSocket(ok)
  \/ HistoryStart
  \/ HistoryDone
  \/ \E w \in WireKeys : SwitchSession(w)

\* what initChat and the socket do once initChat has started
ChatRun ==
  \/ LoadRun(HistoryLists)
  \/ \E j \in JoinSignals : DeliverJoin(j[1], j[2])
  \/ \E c \in ChatSignals : DeliverChat(c[1], c[2])
  \/ DeliverOther

\* the same with the page sending messages and closing the chat
PageRun ==
  \/ ChatRun
  \/ SendMessage
  \/ \E i \in DOMAIN tasks, open \in BOOLEAN : ResumeSend(i, open)
  \/ CloseChat

(***************************************************************************)
(* Key store (crypto.js) and the identity page (keymgr.js, unnamed         *)
(* part_001).  An X25519 key pair is <<owner, n>>: the n-th pair generated *)
(* here (n = 0: the pair written in an exported identity file), made for   *)
(* the identity `owner`.  An identity key pair is named by its public key. *)
(***************************************************************************)
NoPair == <<"none", 0>>

\* the object saveIdentityKeyPair is given: the signing pair and, when the
\* x25519 fields are there, the exchange pair
KeyPair(publicKey, x25519) == [publicKey |-> publicKey, x25519 |-> x25519]

\* crypto.js saveIdentityKeyPair: the x25519 item after the call
saveIdentityKeyPair(kp, stored) == IF kp.x25519 # NoPair THEN kp.x25519 ELSE stored

\* crypto.js loadIdentityKeyPair: null, or the identity with the stored
\* exchange pair copied in
loadIdentityKeyPair(identity, stored) ==
  IF identity = NoKey THEN <<>> ELSE <<KeyPair(identity, stored)>>

\* crypto.js importIdentityKeyPair accepts a text with publicKey and
\* privateKey; the x25519 fields are optional
ImportTexts == {KeyPair(i, x) : i \in IdKeys, x \in {NoPair}} \cup {KeyPair(i, <<i, 0>>) : i \in IdKeys}

KeysIdle ==
  /\ x25519Stored = NoPair
  /\ xTasks = <<>>
  /\ xReturned = <<>>
  /\ generated = 0

\* saveIdentityKeyPair(kp); xReturned starts again: it lists the loads since
\* the identity was last saved
Save(kp) ==
  /\ identityPub' = kp.publicKey
  /\ x25519Stored' = saveIdentityKeyPair(kp, x25519Stored)
  /\ xReturned' = <<>>
  /\ UNCHANGED <<tradeBuyer, pageReady, pendingPeerSig, localSigned, op, alertMsg, chatOut,
                 relayOut, cancelOut, relayResult, tradeStatus, endedNotice, verifyCalls,
                 mySigOut>>
  /\ UNCHANGED <<chatVars, xTasks, codecVars, verifyVars, sockVars>>

\* keymgr.js generateNewIdentity, the dialog confirmed: a fresh signing pair
\* and a fresh exchange pair are saved
GenerateNewIdentity(i) ==
  /\ generated < MaxGen
  /\ generated' = generated + 1
  /\ Save(KeyPair(i, <<i, generated + 1>>))

\* keymgr.js importIdentityFromPrompt, the text accepted and the dialog confirmed
ImportIdentity(kp) ==
  /\ UNCHANGED generated
  /\ Save(kp)

\* crypto.js loadX25519KeyPair up to its first suspension, called by initChat
\* once it has found an identity: the stored pair is returned, or the call
\* waits for generateX25519KeyPair
LoadX25519Start ==
  /\ identityPub # NoKey
  /\ Len(xTasks) + Len(xReturned) < MaxLoad
  /\ IF x25519Stored # NoPair
       THEN xReturned' = Append(xReturned, x25519Stored) /\ UNCHANGED xTasks
       ELSE xTasks' = Append(xTasks, identityPub) /\ UNCHANGED xReturned
  /\ UNCHANGED <<tradeVars, chatVars, x25519Stored, generated>>
  /\ UNCHANGED <<codecVars, verifyVars, sockVars>>

\* the generated pair arrives: it is stored over whatever is there and returned
LoadX25519Resume(t) ==
  /\ t \in DOMAIN xTasks
  /\ generated < MaxGen
  /\ generated' = generated + 1
  /\ x25519Stored' = <<xTasks[t], generated + 1>>
  /\ xReturned' = Append(xReturned, <<xTasks[t], generated + 1>>)
  /\ xTasks' = [j \in 1..(Len(xTasks) - 1) |-> IF j < t THEN xTasks[j] ELSE xTasks[j + 1]]
  /\ UNCHANGED <<tradeVars, chatVars, codecVars, verifyVars, sockVars>>

LoadNext ==
  \/ LoadX25519Start
  \/ \E t \in DOMAIN xTasks : LoadX25519Resume(t)

VaultNext ==
  \/ \E i \in IdKeys : GenerateNewIdentity(i)
  \/ \E kp \in ImportTexts : ImportIdentity(kp)
  \/ LoadNext

(***************************************************************************)
(* crypto.js canonicalize and hash applied to JSON values: primitives,     *)
(* arrays and objects of primitives, and arrays and objects of those.      *)
(***************************************************************************)
Prims == {<<"null", "null">>, <<"bool", "true">>, <<"num", 1>>, <<"str", "a">>}

Arrays(S) == {<<"arr", <<x, y>>>> : x \in S, y \in S}

Objects(S) == {<<"obj", <<<<"a", x>>, <<"b", y>>>>>> : x \in S, y \in S}
                \cup {<<"obj", <<<<"b", x>>, <<"a", y>>>>>> : x \in S, y \in S}

JsonValues == LET inner == Prims \cup Arrays(Prims) \cup Objects(Prims)
              IN Arrays(inner) \cup Objects(inner)

\* structural equality: arrays agree position by position, objects key by key
RECURSIVE StructEq(_, _)
StructEq(a, b) ==
  IF a[1] # b[1] THEN FALSE
  ELSE IF a[1] = "arr"
    THEN Len(a[2]) = Len(b[2]) /\ \A i \in DOMAIN a[2] : StructEq(a[2][i], b[2][i])
  ELSE IF a[1] = "obj"
    THEN /\ objectKeys(a[2]) = objectKeys(b[2])
         /\ \A k \in objectKeys(a[2]) : StructEq(objectGet(a[2], k), objectGet(b[2], k))
  ELSE a = b

\* the i-th member of an array or object, and the value with it replaced
child(v, i) == IF v[1] = "obj" THEN v[2][i][2] ELSE v[2][i]

setChild(v, i, c) ==
  IF v[1] = "obj" THEN <<"obj", [v[2] EXCEPT ![i] = <<v[2][i][1], c>>]>>
  ELSE <<"arr", [v[2] EXCEPT ![i] = c]>>

\* position 0 is the value itself, 1 and 2 are its members
nodeAt(v, p) == IF p = 0 THEN v ELSE child(v, p)

replaceAt(v, p, n) == IF p = 0 THEN n ELSE setChild(v, p, n)

\* the same two entries or elements, the second one put first
swapped(n) == <<n[1], <<n[2][2], n[2][1]>>>>

CodecIdle ==
  /\ jsonA = <<"null", "null">>
  /\ jsonB = <<"null", "null">>
  /\ codecOut = <<>>

CodecInit ==
  /\ jsonA \in JsonValues
  /\ jsonB = jsonA
  /\ codecOut = <<>>

\* the object at position p is built with its keys inserted in the other order
ReorderKeys(p) ==
  /\ codecOut = <<>>
  /\ nodeAt(jsonB, p)[1] = "obj"
  /\ jsonB' = replaceAt(jsonB, p, swapped(nodeAt(jsonB, p)))
  /\ UNCHANGED <<jsonA, codecOut>>
  /\ UNCHANGED <<tradeVars, chatVars, keyVars, verifyVars, sockVars>>

\* the array at position p is built with its elements in the other order
ReorderElements(p) ==
  /\ codecOut = <<>>
  /\ nodeAt(jsonB, p)[1] = "arr"
  /\ jsonB' = replaceAt(jsonB, p, swapped(nodeAt(jsonB, p)))
  /\ UNCHANGED <<jsonA, codecOut>>
  /\ UNCHANGED <<tradeVars, chatVars, keyVars, verifyVars, sockVars>>

\* hash is applied to both values
Hash ==
  /\ codecOut = <<>>
  /\ codecOut' = <<hash(jsonA), hash(jsonB)>>
  /\ UNCHANGED <<jsonA, jsonB>>
  /\ UNCHANGED <<tradeVars, chatVars, keyVars, verifyVars, sockVars>>

CodecNext ==
  \/ \E p \in 0..2 : ReorderKeys(p)
  \/ \E p \in 0..2 : ReorderElements(p)
  \/ Hash

(***************************************************************************)
(* crypto.js verify applied to a hash, a signature text and a public key.  *)
(***************************************************************************)
VerifyInputs ==
  LET hashes == {hash(b) : b \in Bodies}
  IN {<<h, sg, k>> : h \in hashes,
                     sg \in {sign(h2, k2) : h2 \in hashes, k2 \in IdKeys}
                              \cup {MalformedSig, ShortSig},
                     k \in IdKeys}

VerifyIdle ==
  /\ verifyIn = <<hash(Body(PageTradeId, "COMPLETED", 1)), MalformedSig, "S">>
  /\ verifyOut = "none"

VerifyInit ==
  /\ verifyIn \in VerifyInputs
  /\ verifyOut = "none"

Verify ==
  /\ verifyOut = "none"
  /\ verifyOut' = verify(verifyIn[1], verifyIn[2], verifyIn[3])
  /\ UNCHANGED verifyIn
  /\ UNCHANGED <<tradeVars, chatVars, keyVars, codecVars, sockVars>>

(***************************************************************************)
(* api.js openChatSocket.  An attempt is one call: ws is the readyState of *)
(* its WebSocket ("none" when the call threw before making one), resolved  *)
(* the flag of its promise executor, outcome how the promise settled,      *)
(* settles the number of resolve / reject calls made, timer whether the    *)
(* 5 s timer is still pending, authOk / authFail whether an auth_response  *)
(* with / without success has been received.                               *)
(***************************************************************************)
Attempt(ws, outcome) ==
  [ws |-> ws, resolved |-> FALSE, outcome |-> outcome,
   settles |-> IF outcome = "pending" THEN 0 ELSE 1,
   timer |-> ws # "none", authOk |-> FALSE, authFail |-> FALSE]

\* if (!resolved) { resolved = true; resolve / reject }
settle(a, outcome) ==
  IF a.resolved THEN a
  ELSE [a EXCEPT !.resolved = TRUE, !.outcome = outcome, !.settles = a.settles + 1]

\* variant: the timer callback rejects nothing
onTimeout_silent(a) == [a EXCEPT !.timer = FALSE]

\* the setTimeout callback
onTimeout(a) == settle([a EXCEPT !.timer = FALSE], "timeout")

\* chatSocket.onmessage for an auth_response
onAuthResponse(a, success) ==
  IF success THEN settle([a EXCEPT !.authOk = TRUE], "resolved")
  ELSE [a EXCEPT !.authFail = TRUE]

\* chatSocket.onerror; the socket goes on to close
onError(a) == settle([a EXCEPT !.ws = "closing"], "error")

\* sendChatMessage: throws unless a socket is held and its readyState is
\* OPEN; otherwise the message goes out on the socket held
sendChatMessage(type, held, atts, sent) ==
  IF held = 0 THEN sent
  ELSE IF atts[held].ws # "open" THEN sent
  ELSE Append(sent, <<held, type>>)

SocketIdle ==
  /\ attempts = <<>>
  /\ chatSocket = 0
  /\ callbacks = 0
  /\ wire = <<>>

SocketRest == UNCHANGED <<tradeVars, chatVars, keyVars, codecVars, verifyVars>>

\* openChatSocket up to the return of its promise: without tradeId or identity
\* key it throws; otherwise a socket still held is closed, and the new socket,
\* its handlers and its timer are set up
OpenChatSocket(argsOk) ==
  /\ Len(attempts) < MaxAttempts
  /\ IF ~argsOk
       THEN /\ attempts' = Append(attempts, Attempt("none", "badargs"))
            /\ UNCHANGED <<chatSocket, callbacks>>
       ELSE /\ attempts' = Append(IF chatSocket = 0 THEN attempts
                                   ELSE [attempts EXCEPT ![chatSocket].ws = "closing"],
                                  Attempt("connecting", "pending"))
            /\ chatSocket' = Len(attempts) + 1
            /\ callbacks' = IF chatSocket = 0 THEN callbacks + 1 ELSE 1
  /\ UNCHANGED wire
  /\ SocketRest

\* the connection is established: onopen sends the auth message with
\* chatSocket.send, on the socket the module holds at that moment; send
\* throws when none is held or the one held is still connecting
WsOpen(i) ==
  /\ i \in DOMAIN attempts /\ attempts[i].ws = "connecting"
  /\ attempts' = [attempts EXCEPT ![i].ws = "open"]
  /\ wire' = sendChatMessage("auth", chatSocket, attempts', wire)
  /\ UNCHANGED <<chatSocket, callbacks>>
  /\ SocketRest

\* the relay answers with an auth_response; when that resolves the promise,
\* initChat, which awaited it, goes on to sendJoinMessage
WsAuthResponse(i, success) ==
  /\ i \in DOMAIN attempts /\ attempts[i].ws = "open"
  /\ attempts' = [attempts EXCEPT ![i] = onAuthResponse(attempts[i], success)]
  /\ wire' = IF success /\ ~attempts[i].resolved
               THEN sendChatMessage("JOIN", chatSocket, attempts', wire)
               ELSE wire
  /\ UNCHANGED <<chatSocket, callbacks>>
  /\ SocketRest

\* the connection fails
WsError(i) ==
  /\ i \in DOMAIN attempts /\ attempts[i].ws \in {"connecting", "open"}
  /\ attempts' = [attempts EXCEPT ![i] = onError(attempts[i])]
  /\ UNCHANGED <<chatSocket, callbacks, wire>>
  /\ SocketRest

\* the connection is closed, by the relay or after close() or an error:
\* onclose clears the module variables, whichever socket they held
WsClose(i) ==
  /\ i \in DOMAIN attempts /\ attempts[i].ws \in {"open", "closing"}
  /\ attempts' = [attempts EXCEPT ![i].ws = "closed"]
  /\ chatSocket' = 0
  /\ callbacks' = 0
  /\ UNCHANGED wire
  /\ SocketRest

\* the 5 s timer of an attempt fires
Timeout(i) ==
  /\ i \in DOMAIN attempts /\ attempts[i].timer
  /\ attempts' = [attempts EXCEPT ![i] = onTimeout(attempts[i])]
  /\ UNCHANGED <<chatSocket, callbacks, wire>>
  /\ SocketRest

SocketNext ==
  \/ \E argsOk \in BOOLEAN : OpenChatSocket(argsOk)
  \/ \E i \in 1..MaxAttempts : WsOpen(i)
  \/ \E i \in 1..MaxAttempts, success \in BOOLEAN : WsAuthResponse(i, success)
  \/ \E i \in 1..MaxAttempts : WsError(i)
  \/ \E i \in 1..MaxAttempts : WsClose(i)
  \/ \E i \in 1..MaxAttempts : Timeout(i)

\* chat.js sendMessage hands its ciphertext to sendChatTextMessage; the
\* session it needs is there from establishInitialSession on, before initChat
\* calls openChatSocket
SendChatText ==
  /\ attempts # <<>>
  /\ Len(SelectSeq(wire, LAMBDA m : m[2] = "CHAT")) < MaxSend
  /\ wire' = sendChatMessage("CHAT", chatSocket, attempts, wire)
  /\ UNCHANGED <<attempts, chatSocket, callbacks>>
  /\ SocketRest

\* the socket with the page sending chat messages
WireNext ==
  \/ SocketNext
  \/ SendChatText

LibIdle == KeysIdle /\ CodecIdle /\ VerifyIdle /\ SocketIdle

CodecPageInit == TradeIdle /\ ChatIdle /\ KeysIdle /\ CodecInit /\ VerifyIdle /\ SocketIdle

SpecCodec == CodecPageInit /\ [][CodecNext]_vars

VerifyPageInit == TradeIdle /\ ChatIdle /\ KeysIdle /\ CodecIdle /\ VerifyInit /\ SocketIdle

SpecVerify == VerifyPageInit /\ [][Verify]_vars

\* a page that has not opened a socket yet
SocketPageInit == TradeIdle /\ ChatIdle /\ LibIdle

SpecWire == SocketPageInit /\ [][WireNext]_vars

\* a timer that is pending fires: the event loop runs the callback of
\* setTimeout once its 5 s have passed
SpecSocket ==
  /\ SocketPageInit /\ [][SocketNext]_vars
  /\ \A i \in 1..MaxAttempts : WF_vars(Timeout(i))

\* the page as loaded, the chat module not started
TradePageInit == TradeInit /\ ChatIdle /\ LibIdle

\* the identity page of a browser profile with nothing stored
VaultInit == TradeIdle /\ ChatIdle /\ LibIdle

SpecVault == VaultInit /\ [][VaultNext]_vars

SpecTrade == TradePageInit /\ [][TradeNext]_vars

SpecCancel == TradePageInit /\ [][CancelNext]_vars

ChatNext ==
  \/ \E seller \in BOOLEAN, peerInfo \in InfoKeys : InitChat(seller, peerInfo)
  \/ ChatRun

\* the chat module on the page of a buyer whose directory lookup returned the
\* seller's chat key
BuyerNext ==
  \/ \E peerInfo \in InfoKeys \ {NullKey} : InitChat(FALSE, peerInfo)
  \/ PageRun

\* the chat module on a socket that may open without ever authenticating
LinkNext ==
  \/ ChatNext
  \/ SocketOpens
  \/ OpenSocketTimeout

\* the chat module used for one trade and then for another
ReopenNext ==
  \/ \E seller \in BOOLEAN, peerInfo \in InfoKeys : InitChat(seller, peerInfo)
  \/ \E seller \in BOOLEAN, peerInfo \in InfoKeys : ReInitChat(seller, peerInfo)
  \/ LoadRun(HistoryLists)
  \/ \E k \in {Raw("P"), Raw("Q")} : DeliverJoin(k, FALSE)
  \/ CloseChat

\* the chat module as loaded, the trade page not started
ChatPageInit == ChatInit /\ TradeIdle /\ LibIdle

SpecChat == ChatPageInit /\ [][ChatNext]_vars

SpecBuyer == ChatPageInit /\ [][BuyerNext]_vars

SpecLink == ChatPageInit /\ [][LinkNext]_vars

SpecReopen == ChatPageInit /\ [][ReopenNext]_vars

\* the chat module loading the stored history, no signal arriving meanwhile
HistoryNext ==
  \/ \E seller \in BOOLEAN, peerInfo \in InfoKeys : InitChat(seller, peerInfo)
  \/ LoadRun(AllHistoryLists)

SpecHistory == ChatPageInit /\ [][HistoryNext]_vars

(***************************************************************************)
(* Properties of the chat session manager.                                 *)
(***************************************************************************)
DerivingFor(k) == \E i \in DOMAIN tasks : tasks[i].stage = "derive" /\ tasks[i].key = k

\* the key a delivered value stands for
PeerOf(value) == normalizeChatPubKey_defensive(value)

BuyerOf(s) == ~isSeller /\ sellerChatPubKey = s /\ s # NullKey

\* C1: session creation is idempotent under re-entrancy: whatever calls for
\* the same peer key overlap at the key derivation, the key is derived once
\* and, the calls over, the map holds exactly one session for it.
C1_OneDerivationPerPeer ==
  \A k \in DOMAIN derivations :
     /\ derivations[k] <= 1
     /\ ~DerivingFor(k) => SessionCount(sessions, k) = 1

\* C9: a buyer that has recorded the seller's chat key S holds no session
\* under another key, and a JOIN or CHAT from a key other than S starts
\* nothing: the session map and the message logs stay as they are.
C9_BuyerAcceptsOnlySeller ==
  \A s \in {Raw(k) : k \in PeerChatKeys} :
     BuyerOf(s) =>
       /\ sessionKeys(sessions) \subseteq {s}
       /\ \A i \in DOMAIN tasks : tasks[i].key = s
       /\ \A j \in JoinSignals : PeerOf(j[1]) # s => handleJoinMessage(j[1], j[2]) = tasks
       /\ \A c \in ChatSignals : PeerOf(c[1]) # s => handleChatMessage(c[1], c[2]) = tasks

C9_Witness ==
  /\ BuyerOf(Raw("P"))
  /\ socketLive
  /\ lastIn = Raw("Q")
  /\ tasks = <<>>
  /\ sessionKeys(sessions) = {Raw("P")}
  /\ sessionsGet(sessions, Raw("P")).messages # <<>>

\* C10: sessions are looked up and created under the normalized key: every
\* key of the map is normalized, and a peer key delivered JSON-wrapped or as
\* an object is handled by JOIN and CHAT exactly as the raw key is.
C10_NormalizedKeysOnly ==
  /\ \A k \in sessionKeys(sessions) : k[1] = "raw"
  /\ socketLive =>
       \A e \in {"json", "obj"} :
          /\ handleJoinMessage(<<e, "P">>, FALSE) = handleJoinMessage(Raw("P"), FALSE)
          /\ \A n \in MsgIds :
               LET wrapped == handleChatMessage(<<e, "P">>, Sealed("P", n))
                   raw == handleChatMessage(Raw("P"), Sealed("P", n))
               IN /\ Len(wrapped) = Len(raw)
                  /\ \A i \in DOMAIN raw : wrapped[i].key = raw[i].key

\* a history record in flight that its owning session's key cannot open
UndecryptableHist(t) ==
  t.kind = "hist" /\ (parseCiphertextFails(t.ct) \/ decryptThrows(t.chatKey, t.ct))

\* C11: a history record that cannot be decrypted under its owning session's
\* key is skipped: the steps that process it add no session, append no message
\* and do not abandon the records that follow it.
C11_UndecryptableRecordSkipped ==
  [][\A i \in DOMAIN tasks :
       (UndecryptableHist(tasks[i]) /\ (ResumeDerive(i) \/ ResumeDecrypt(i))) =>
          /\ sessionKeys(sessions') = sessionKeys(sessions)
          /\ \A k \in sessionKeys(sessions) :
                sessionsGet(sessions', k).messages = sessionsGet(sessions, k).messages
          /\ history' = history]_vars

\* the session sendMessage read is still stored and still the active one
SendTargetActive(t) ==
  /\ currentSessionPeer = t.key
  /\ sessionsHas(sessions, t.key)
  /\ sessionsGet(sessions, t.key).oid = t.oid

\* C12: when the transport leg of sendMessage fails, the error reaches the
\* caller and the message is in the active session's log as locally authored.
C12_LocalCopyBeforeTransport ==
  [][\A i \in DOMAIN tasks :
       (ResumeSend(i, FALSE) /\ SendTargetActive(tasks[i])) =>
          /\ sendOutcome' = "transport error"
          /\ sessionsGet(sessions', currentSessionPeer).messages
               = Append(sessionsGet(sessions, currentSessionPeer).messages,
                        Message(tasks[i].ct.n, TRUE, "sent"))]_vars

\* C13: closeChat is safe at any suspension point: a handler, a session
\* creation or a history round that was suspended when closeChat ran has its
\* result discarded, so once closed the session map stays empty (no session
\* stored, no message appended).
C13_ResultsDiscardedAfterClose ==
  closed => sessions = <<>>

\* C14: after closeChat the session map is empty and no session is active,
\* and every later sendMessage or switchSession fails: none starts to encrypt
\* and none makes a session active.
C14_ClosedManagerRefuses ==
  closed =>
    /\ sessions = <<>>
    /\ currentSessionPeer = NullKey
    /\ sendMessageStart(sessions, currentSessionPeer).res # "encrypting"
    /\ \A w \in WireKeys : ~switchSession(variant, sessions, currentSessionPeer, w).ok

\* a live CHAT message in flight that the key of its peer's session opens
LiveDecryptable(t) ==
  /\ t.kind = "chat"
  /\ ~parseCiphertextFails(t.ct)
  /\ ~decryptThrows(deriveChatKey(t.key, ChatTradeId), t.ct)

\* C15: live messages are appended in delivery order: while a decryptable
\* CHAT message of a peer is still being handled (its session being created
\* or the message being decrypted), no CHAT message of the same peer that
\* was delivered after it is appended to the log.
C15_DeliveryOrderKept ==
  [][\A i, j \in DOMAIN tasks :
       (/\ i < j
        /\ LiveDecryptable(tasks[i]) /\ LiveDecryptable(tasks[j])
        /\ tasks[i].key = tasks[j].key
        /\ ResumeDecrypt(j)) => sessions' = sessions]_vars

\* C16: during initChat the history is loaded to its end before the live
\* message handler is attached to the socket: whenever the socket delivers
\* to the handler, loadChatHistory has completed.
C16_HistoryBeforeLiveHandler ==
  socketLive => initPc = "live"

IsPrefix(a, b) == Len(a) <= Len(b) /\ SubSeq(b, 1, Len(a)) = a

\* C17: between its creation and closeChat a session is never replaced by a
\* fresh object and its log only grows at the end: every step other than
\* closeChat keeps each stored session's object and key and keeps its log as
\* a prefix of the log afterwards.
C17_LogOnlyGrows ==
  [][closed' = closed =>
       \A k \in sessionKeys(sessions) :
          /\ sessionsHas(sessions', k)
          /\ sessionsGet(sessions', k).oid = sessionsGet(sessions, k).oid
          /\ sessionsGet(sessions', k).chatKey = sessionsGet(sessions, k).chatKey
          /\ IsPrefix(sessionsGet(sessions, k).messages, sessionsGet(sessions', k).messages)]_vars

\* a step of loadChatHistory: a round of its loop up to the first await, or
\* the resumption of a round after deriveChatKey or decrypt
HistoryStep ==
  \/ HistoryStart
  \/ \E i \in DOMAIN tasks : tasks[i].kind = "hist" /\ (ResumeDerive(i) \/ ResumeDecrypt(i))

\* C18: loading the history never counts a message as new: every step of
\* loadChatHistory leaves the unread counter of each session as it was, and
\* a session the step creates has unread 0, whatever it appends.
C18_HistoryKeepsUnread ==
  [][HistoryStep =>
       \A k \in sessionKeys(sessions') :
          LET after == sessionsGet(sessions', k)
          IN IF sessionsHas(sessions, k) /\ sessionsGet(sessions, k).oid = after.oid
               THEN after.unread = sessionsGet(sessions, k).unread
               ELSE after.unread = 0]_vars

\* the history is loaded and a session that is not the active one holds a
\* peer's message from it, still with no unread message
C18_Witness ==
  /\ initPc \in {"opening", "live"}
  /\ \E i \in DOMAIN sessions :
        /\ sessions[i].peerChatPubKey # currentSessionPeer
        /\ sessions[i].messages # <<>>
        /\ sessions[i].messages[1].via = "history"
        /\ ~sessions[i].messages[1].isOwn
        /\ sessions[i].unread = 0

\* C19: sendMessage needs an active session: with none active it fails with
\* the "no active session" error, no encryption is started (so nothing
\* reaches the transport), and the step that runs it changes no session.
C19_SendNeedsActiveSession ==
  [][currentSessionPeer = NullKey =>
       /\ sendMessageStart(sessions, currentSessionPeer)
            = [res |-> "no active session", tasks |-> tasks]
       /\ SendMessage =>
            /\ sendOutcome' = "no active session"
            /\ tasks' = tasks
            /\ sessions' = sessions]_vars

\* the page has called sendMessage on an open chat with no session active
C19_Witness ==
  /\ sendOutcome = "no active session"
  /\ currentSessionPeer = NullKey
  /\ ~closed
  /\ initPc # "closed"

\* C20: switchSession(peer) returns true exactly when the normalized peer key
\* has a session; returning false it changes neither the active pointer nor
\* a session; returning true it makes that peer the active one and sets that
\* session's unread counter to 0, every other session unchanged.
C20_SwitchSessionContract ==
  \A w \in WireKeys \cup {NullKey} :
     LET k == PeerOf(w)
         r == switchSession(variant, sessions, currentSessionPeer, w)
     IN /\ r.ok <=> (k # NullKey /\ sessionsHas(sessions, k))
        /\ ~r.ok => (r.current = currentSessionPeer /\ r.sessions = sessions)
        /\ r.ok => /\ r.current = k
                    /\ \A i \in DOMAIN sessions :
                          r.sessions[i] = IF sessions[i].peerChatPubKey = k
                                            THEN [sessions[i] EXCEPT !.unread = 0]
                                            ELSE sessions[i]

\* the handler of a live CHAT whose decrypt succeeds
DecryptsLive(t) ==
  /\ t.kind = "chat" /\ t.stage = "decrypt"
  /\ ~parseCiphertextFails(t.ct) /\ ~decryptThrows(t.chatKey, t.ct)

\* C21: when a live CHAT from peer P has been decrypted, that message is
\* appended to P's log as not locally authored, P's unread counter goes up by
\* one exactly when P is not the active session, and no other session changes.
C21_LiveChatAppended ==
  [][\A i \in DOMAIN tasks :
       (DecryptsLive(tasks[i]) /\ ResumeDecrypt(i)) =>
          LET P == tasks[i].key
          IN /\ DOMAIN sessions' = DOMAIN sessions
             /\ sessionsHas(sessions, P)
             /\ \A j \in DOMAIN sessions :
                   sessions'[j] =
                     IF sessions[j].peerChatPubKey = P
                       THEN [sessions[j] EXCEPT
                               !.messages = Append(@, Message(tasks[i].ct.n, FALSE, "live")),
                               !.unread = IF currentSessionPeer # P THEN @ + 1 ELSE @]
                       ELSE sessions[j]]_vars

\* C22: self-sessions never exist: whatever lookups, JOIN signals (the echo
\* of the own JOIN included), CHAT messages and history records are handled,
\* the session map never holds the local party's own chat public key.
C22_NoSelfSession ==
  ~sessionsHas(sessions, Raw(MyChatKey))

CompleteRequest(sig) ==
  [type |-> "TRADE_COMPLETE_REQUEST", trade_id |-> PageTradeId, signature |-> sig]

NothingAfterAccepted ==
  tradeStatus = "COMPLETED" => (chatOut' = <<>> /\ relayOut' = <<>>)

\* a cached peer proposal is given up only by the submission the relay accepts
ProposalLeavesBySubmission ==
  (pendingPeerSig # <<>> /\ pendingPeerSig' = <<>>) => relayResult' = "accepted"

\* C24: the handshake takes only the listed transitions and SUBMITTED is
\* terminal: a cached peer proposal (PEER_PROPOSED) is left only through the
\* submission the relay accepts, and once the relay has accepted the two
\* signatures the page sends no further proposal and no further submission.
C24_SubmittedIsTerminal ==
  [][NothingAfterAccepted /\ ProposalLeavesBySubmission]_tradeVars


ExchangePairOwned ==
  (identityPub # NoKey /\ x25519Stored # NoPair) => x25519Stored[1] = identityPub

\* C26: saving an identity overwrites and never merges: right after
\* saveIdentityKeyPair(I), loadIdentityKeyPair returns exactly the key
\* material of I, and the stored exchange pair always belongs to the stored
\* identity.
C26_PersistOverwrites ==
  [][/\ \A kp \in ImportTexts :
          ImportIdentity(kp) => loadIdentityKeyPair(identityPub', x25519Stored') = <<kp>>
     /\ \A i \in IdKeys :
          GenerateNewIdentity(i)
            => loadIdentityKeyPair(identityPub', x25519Stored')
                 = <<KeyPair(i, <<i, generated + 1>>)>>
     /\ ExchangePairOwned']_vars

\* C27: the loadX25519KeyPair calls made since the identity was saved,
\* sequential or overlapping, all return the same key pair, the one that is
\* stored.
C27_LoadIdempotent ==
  /\ \A a \in DOMAIN xReturned : xReturned[a] = x25519Stored
  /\ \A a, b \in DOMAIN xReturned : xReturned[a] = xReturned[b]


C29_VerifyNeverThrows ==
  verifyOut # "throw"


\* what holds of every attempt at every moment
SettledOnce(a) ==
  /\ a.settles <= 1
  /\ a.outcome = "pending" <=> a.settles = 0
  /\ a.outcome = "resolved" => a.authOk
  /\ a.outcome = "timeout" => ~a.timer
  /\ (a.ws # "none" /\ ~a.timer /\ ~a.authOk) => a.outcome \in {"timeout", "error"}

\* C30: every openChatSocket attempt eventually settles, and settles once:
\* it resolves only after an auth_response with success, and it rejects on a
\* socket error or, when the timer fires with no successful auth_response
\* received (a failed one included), with the timeout error.
C30_SocketSettlesOnce ==
  /\ [](\A i \in DOMAIN attempts : SettledOnce(attempts[i]))
  /\ \A i \in 1..MaxAttempts :
       (i \in DOMAIN attempts) ~> (i \in DOMAIN attempts /\ attempts[i].outcome # "pending")

C30_Witness ==
  \E i \in DOMAIN attempts :
    /\ attempts[i].authFail /\ ~attempts[i].authOk
    /\ attempts[i].outcome = "timeout" /\ attempts[i].settles = 1

(***************************************************************************)
(* Properties of what is submitted and of what is cached.                  *)
(***************************************************************************)
\* C36: every request sent to the completion endpoint with trade_id T
\* carries the hash of a body whose trade_id is T and whose result is
\* COMPLETED.
C36_SubmissionIsOfThisTrade ==
  \A i \in DOMAIN relayOut :
    relayOut[i].hash \in {hash(Body(relayOut[i].trade_id, "COMPLETED", ts)) : ts \in Times}

\* C40: a message the local party authored never changes the cached
\* proposal, and the cached proposal is never one the local key signed, so
\* that no submission is made of two signatures of the local key.
C40_CachedProposalIsPeers ==
  /\ \A pl \in OwnPayloads :
       handleNewMessage(pl, TRUE, pageReady, pendingPeerSig).pending = pendingPeerSig
  /\ \A i \in DOMAIN pendingPeerSig : pendingPeerSig[i].pubkey # identityPub
  /\ \A i \in DOMAIN relayOut :
       ~(relayOut[i].sig_seller[2] = identityPub /\ relayOut[i].sig_buyer[2] = identityPub)

\* C37: a participant acting as buyer holds at most one session.
C37_BuyerHasOnePeer ==
  (initPc # "closed" /\ ~isSeller) => Len(sessions) <= 1

(***************************************************************************)
(* Properties of the active session pointer.                               *)
(***************************************************************************)
\* C32: when the history load ends with no session active and a session in
\* the Map, the first session of the Map becomes the active one; a session
\* that was active stays the active one.
C32_FirstSessionActivated ==
  [][HistoryDone =>
       currentSessionPeer' = IF currentSessionPeer = NullKey /\ sessions # <<>>
                               THEN sessions[1].peerChatPubKey
                               ELSE currentSessionPeer]_vars

\* C39: once initChat has failed no message handler is live: no inbound
\* message is dispatched to the chat handlers any more.
C39_FailedInitIsSilent ==
  /\ [](initPc = "failed" => ~socketLive)
  /\ [][initPc = "failed" => delivered' = delivered]_vars

\* C33: the active session pointer is null or a key of the session Map, in
\* every state the chat module can reach.
C33_ActivePointerValid ==
  currentSessionPeer = NullKey \/ sessionsHas(sessions, currentSessionPeer)

\* an active session after closeChat: a handler suspended across the call
\* stored a session again and the page switched to it
C33_Witness ==
  /\ closed
  /\ currentSessionPeer # NullKey
  /\ sessionsHas(sessions, currentSessionPeer)

\* C34: the active session shows no unread messages: the session the active
\* pointer refers to has unread = 0, in every state.
C34_ActiveSessionRead ==
  \A i \in DOMAIN sessions :
     sessions[i].peerChatPubKey = currentSessionPeer => sessions[i].unread = 0

\* C38: once a second initChat, for another trade, has completed, every
\* session of the Map holds a key derived for that trade.
C38_NoSessionOfOldContext ==
  (currentTradeId = OtherTradeId /\ initPc = "live") =>
     \A i \in DOMAIN sessions :
        sessions[i].chatKey = deriveChatKey(sessions[i].peerChatPubKey, OtherTradeId)

(***************************************************************************)
(* Properties of the socket held by api.js.                                *)
(***************************************************************************)
\* C35: the close event of a socket that is no longer the one held leaves
\* the reference to the socket held and its message handler as they are.
C35_OldCloseLeavesNewSocket ==
  [][\A i \in DOMAIN attempts :
       (WsClose(i) /\ chatSocket # 0 /\ chatSocket # i)
         => (chatSocket' = chatSocket /\ callbacks' = callbacks)]_vars

\* the place in wire of the first message sent on socket i
FirstOn(i) == CHOOSE k \in DOMAIN wire : wire[k][1] = i /\ \A j \in 1..(k - 1) : wire[j][1] # i

\* C31: on every connection the auth message is the first message sent, and
\* a JOIN or CHAT message goes out only on a connection that has received an
\* auth_response with success.
C31_AuthBeforeTraffic ==
  /\ [](\A i \in DOMAIN attempts :
         (\E k \in DOMAIN wire : wire[k][1] = i) => wire[FirstOn(i)][2] = "auth")
  /\ [][(wire' # wire /\ wire'[Len(wire')][2] \in {"JOIN", "CHAT"})
          => attempts'[wire'[Len(wire')][1]].authOk]_vars

====
